---- MODULE Spec2Model ----
(***************************************************************************)
(* A model of spiff's evaluation engine and of the code around it:         *)
(*   - the document tree, the Binding lookup and the fixed-point driver    *)
(*     (package flow, described in spec.md 4.C-4.F),                       *)
(*   - the merge command (src/cmd/merge.go),                               *)
(*   - the evaluation helpers of src/dynaml/expression.go,                 *)
(*   - the library context of src/spiffing/spiff.go.                       *)
(* Every part has a specification of its own (SpecFlow, SpecMerge, ...);   *)
(* the variables of the other parts rest at their idle value.              *)
(***************************************************************************)
EXTENDS Integers, Sequences, FiniteSets, TLC

\* ------------------------------------------------------------------ bounds
\* entries of a template document
MaxNodes == 2

\* ------------------------------------------------------------ small helpers
SetMax(S) == CHOOSE x \in S : \A y \in S : y <= x
SetMin(S) == CHOOSE x \in S : \A y \in S : x <= y

\* all sequences over S of length lo..hi
SeqsOf(S, lo, hi) == UNION {[1..n -> S] : n \in lo..hi}

\* ---------------------------------------------------------------- node model
\* spec.md 3 "Node": a node is a resolved scalar or an unresolved expression;
\* it carries the Temporary flag and, after a failed run, its error class.
\* The expressions of the model are references to one name.
ValNode(k, v, t) ==
    [key |-> k, kind |-> "val", val |-> v, ref |-> 0, temp |-> t, class |-> ""]

ExprNode(k, r, t) ==
    [key |-> k, kind |-> "expr", val |-> "", ref |-> r, temp |-> t, class |-> ""]

\* a document: an ordered mapping (insertion order kept) with the flags of its
\* root node; isnil is a document without value
Doc(t, ns) == [isnil |-> FALSE, temp |-> t, nodes |-> ns]

NilDoc == [isnil |-> TRUE, temp |-> FALSE, nodes |-> <<>>]

IsResolvedNode(n) == n.kind = "val"

\* spec.md 3: fully resolved = no expression anywhere in the subtree
UnresolvedNodes(doc) == {i \in DOMAIN doc.nodes : doc.nodes[i].kind = "expr"}

IsResolved(doc) == UnresolvedNodes(doc) = {}

HasTemporary(doc) == \E i \in DOMAIN doc.nodes : doc.nodes[i].temp

\* ------------------------------------------------------------------ Binding
\* spec.md 3 "Binding": local scopes (innermost last), the document root, the
\* stubs, in the order supplied.
Environment(scopes, root, stubs) ==
    [scopes |-> scopes, root |-> root, stubs |-> stubs]

WithLocalScope(b, m) == [b EXCEPT !.scopes = Append(b.scopes, m)]

WithRoot(b, root) == [b EXCEPT !.root = root]

NotFound == [found |-> FALSE, where |-> "none", at |-> 0, node |-> ValNode(0, "", FALSE)]

Found(w, i, n) == [found |-> TRUE, where |-> w, at |-> i, node |-> n]

\* the entry of a document under a key
FindInDoc(doc, w, name) ==
    LET hits == {i \in DOMAIN doc.nodes : doc.nodes[i].key = name}
    IN  IF hits = {} THEN NotFound
        ELSE Found(w, SetMin(hits), doc.nodes[SetMin(hits)])

FindFromRoot(b, name) == FindInDoc(b.root, "root", name)

\* local scopes, from the innermost outward
FindInScopes(b, name) ==
    LET hits == {i \in DOMAIN b.scopes : name \in DOMAIN b.scopes[i]}
    IN  IF hits = {} THEN NotFound
        ELSE Found("scope", SetMax(hits), b.scopes[SetMax(hits)][name])

\* the stubs, in the order supplied
FindInStubs(b, name) ==
    LET hits == {i \in DOMAIN b.stubs : FindInDoc(b.stubs[i], "stub", name).found}
    IN  IF hits = {} THEN NotFound
        ELSE Found("stub", SetMin(hits), FindInDoc(b.stubs[SetMin(hits)], "stub", name).node)

\* a lookup that asks the document root before the local scopes
FindReferenceRootFirst(b, name) ==
    IF FindFromRoot(b, name).found THEN FindFromRoot(b, name)
    ELSE IF FindInScopes(b, name).found THEN FindInScopes(b, name)
    ELSE FindInStubs(b, name)

\* spec.md 4.C (3): a reference that is neither root-anchored nor tag-qualified
FindReference(b, name) ==
    IF FindInScopes(b, name).found THEN FindInScopes(b, name)
    ELSE IF FindFromRoot(b, name).found THEN FindFromRoot(b, name)
    ELSE FindInStubs(b, name)

\* ------------------------------------------------------------- merge engine
\* spec.md 4.E, mappings: the result holds the union of the keys; a scalar of
\* the template is replaced by the scalar of the stub at the same path; an
\* expression of the template stays.
MergeNode(n, stub) ==
    LET s == FindInDoc(stub, "stub", n.key)
    IN  IF n.kind = "val" /\ s.found /\ s.node.kind = "val"
        THEN [n EXCEPT !.val = s.node.val]
        ELSE n

MergeStub(doc, stub) ==
    LET keys == {doc.nodes[i].key : i \in DOMAIN doc.nodes}
        own == [i \in DOMAIN doc.nodes |-> MergeNode(doc.nodes[i], stub)]
        new == SelectSeq(stub.nodes, LAMBDA n : n.key \notin keys)
    IN  IF stub.isnil THEN doc ELSE [doc EXCEPT !.nodes = own \o new]

RECURSIVE Merge(_, _)
Merge(doc, stubs) ==
    IF stubs = <<>> THEN doc ELSE Merge(MergeStub(doc, Head(stubs)), Tail(stubs))

\* ---------------------------------------------------------------- evaluator
\* spec.md 4.D "Reference": follow the path via the Binding; an unresolved
\* target defers the reference, a name defined nowhere is an error.
Evaluate(n, b) ==
    LET r == FindReference(b, n.ref)
    IN  IF ~r.found THEN [status |-> "error", val |-> "", target |-> r]
        ELSE IF r.node.kind = "val"
             THEN [status |-> "value", val |-> r.node.val, target |-> r]
             ELSE [status |-> "deferred", val |-> "", target |-> r]

\* a pass that lets the expression of a stub override a resolved node
FlowNodeStubOverrides(n, b) ==
    IF n.kind = "val"
    THEN LET s == FindInStubs(b, n.key)
         IN  IF s.found /\ s.node.kind = "expr" THEN ExprNode(n.key, s.node.ref, n.temp) ELSE n
    ELSE LET r == Evaluate(n, b)
         IN  IF r.status = "value" THEN ValNode(n.key, r.val, n.temp)
             ELSE [n EXCEPT !.class = IF r.status = "error" THEN "*" ELSE ""]

\* a pass that resolves every node again, as a reference to its own key
FlowNodeReevaluates(n, b) ==
    LET r == Evaluate(IF n.kind = "val" THEN ExprNode(n.key, n.key, n.temp) ELSE n,
                      [b EXCEPT !.root = NilDoc])
    IN  IF r.status = "value" THEN ValNode(n.key, r.val, n.temp) ELSE n

\* spec.md 4.F 3a, one node: replace the node with the result when resolved
FlowNode(n, b) ==
    IF n.kind = "val" THEN n
    ELSE LET r == Evaluate(n, b)
         IN  IF r.status = "value" THEN ValNode(n.key, r.val, n.temp)
             ELSE [n EXCEPT !.class = IF r.status = "error" THEN "*" ELSE ""]

\* spec.md 4.F 3a: one pass over the tree, in document order, against the
\* root the pass started with
FlowPass(doc, b) ==
    [doc EXCEPT !.nodes = [i \in DOMAIN doc.nodes |->
                              FlowNode(doc.nodes[i], WithRoot(b, doc))]]

\* spec.md 4.F 3b
UnresolvedCount(doc) == Cardinality(UnresolvedNodes(doc))

\* spec.md 4.F 2: prev_unresolved_count, infinite before the first pass
Infinite == [inf |-> TRUE, n |-> 0]

Finite(n) == [inf |-> FALSE, n |-> n]

\* no progress only when the count grew
NoProgressOnlyOnGrowth(cur, prev) == ~prev.inf /\ cur > prev.n

\* spec.md 4.F 3d: cur >= prev_unresolved_count
NoProgress(cur, prev) == ~prev.inf /\ cur >= prev.n

\* spec.md 4.F 3c-3e: what the loop does after a pass
LoopDecision(cur, prev) ==
    IF cur = 0 THEN "return"
    ELSE IF NoProgress(cur, prev) THEN "noprogress"
    ELSE "iterate"

\* ---------------------------------------------------------- cycle analysis
\* the node of the root an unresolved node refers to (0: none)
DependsOn(doc, b, i) ==
    LET r == Evaluate(doc.nodes[i], WithRoot(b, doc)).target
    IN  IF r.found /\ r.where = "root" /\ r.node.kind = "expr" THEN r.at ELSE 0

RECURSIVE DepClosure(_, _, _)
DepClosure(doc, b, S) ==
    LET T == (S \cup {DependsOn(doc, b, j) : j \in S}) \ {0}
    IN  IF T = S THEN S ELSE DepClosure(doc, b, T)

\* the nodes node i depends on, directly or not
Reaches(doc, b, i) ==
    IF DependsOn(doc, b, i) = 0 THEN {} ELSE DepClosure(doc, b, {DependsOn(doc, b, i)})

OnCycle(doc, b, i) == i \in Reaches(doc, b, i)

\* spec.md 4.F 3d and the legend of src/cmd/merge.go: "*" error in the local
\* expression, "@" dependent of or involved in a cycle, "-" depending on a
\* node with an error
\* a classification that knows only the self-reference as a cycle
ErrorClassSelfCycleOnly(doc, b, i) ==
    IF Evaluate(doc.nodes[i], WithRoot(b, doc)).status = "error" THEN "*"
    ELSE IF DependsOn(doc, b, i) = i THEN "@"
    ELSE "-"

ErrorClass(doc, b, i) ==
    IF Evaluate(doc.nodes[i], WithRoot(b, doc)).status = "error" THEN "*"
    ELSE IF \E j \in Reaches(doc, b, i) \cup {i} : OnCycle(doc, b, j) THEN "@"
    ELSE "-"

Classify(doc, b) ==
    [doc EXCEPT !.nodes = [i \in DOMAIN doc.nodes |->
        IF doc.nodes[i].kind = "expr"
        THEN [doc.nodes[i] EXCEPT !.class = ErrorClass(doc, b, i)]
        ELSE doc.nodes[i]]]

\* the accumulated issues: the unresolved nodes with their class
Issues(doc) ==
    {[key |-> doc.nodes[i].key, class |-> doc.nodes[i].class] : i \in UnresolvedNodes(doc)}

\* --------------------------------------------------------------- flow driver
\* spec.md 4.A cleanup: remove the nodes flagged Temporary
DiscardTemporary(doc) ==
    [doc EXCEPT !.nodes = SelectSeq(doc.nodes, LAMBDA n : ~n.temp)]

\* spec.md 4.F 3c: the tree, no error
FlowDone(doc) == [tree |-> doc, err |-> FALSE, issues |-> {}]

\* spec.md 4.F 3d: the partial tree if partial is set, otherwise the failure
FlowFailed(doc, b, partial) ==
    [tree |-> IF partial THEN Classify(doc, b) ELSE NilDoc,
     err |-> TRUE,
     issues |-> Issues(Classify(doc, b))]

\* an escaped expression "((! x ))" is a string; unescaped it reads "(( x ))"
Unescape(v) == IF v = "((! x ))" THEN "(( x ))" ELSE v

\* spec.md 6, preserve_escapes, and src/cmd/merge.go (--preserve-escapes):
\* escaped expressions lose their escape unless the option keeps it
UnescapeDynaml(doc) ==
    [doc EXCEPT !.nodes = [i \in DOMAIN doc.nodes |->
        IF doc.nodes[i].kind = "val"
        THEN [doc.nodes[i] EXCEPT !.val = Unescape(doc.nodes[i].val)]
        ELSE doc.nodes[i]]]

\* spec.md 8.4: Temporary nodes leave the output unless preserve_temporary
CleanupResult(r, opts) ==
    LET unescaped == IF opts.preserveEscapes THEN r.tree ELSE UnescapeDynaml(r.tree)
        cleaned == IF opts.preserveTemporary THEN unescaped ELSE DiscardTemporary(unescaped)
    IN  IF r.tree.isnil THEN r ELSE [r EXCEPT !.tree = cleaned]

\* ------------------------------------------------- src/dynaml/expression.go
\* yaml.Issue, as far as expression.go reads it
NoIssue == [Issue |-> "", Nested |-> <<>>, Sequence |-> FALSE]

NewIssue(msg) == [Issue |-> msg, Nested |-> <<>>, Sequence |-> FALSE]

\* DefaultInfo()
DefaultInfo ==
    [RedirectPath |-> <<>>, Replace |-> FALSE, Merged |-> FALSE, Preferred |-> FALSE,
     KeyName |-> "", Source |-> "", LocalError |-> FALSE, Failed |-> FALSE,
     Undefined |-> FALSE, Raw |-> FALSE, Issue |-> NoIssue, Cleanups |-> <<>>,
     NodeFlags |-> {}]

\* a Join that takes Failed from the operand, as it takes Replace
JoinTakingFailed(i, o) ==
    [i EXCEPT !.RedirectPath = IF o.RedirectPath # <<>> THEN o.RedirectPath ELSE @,
              !.Replace = o.Replace,
              !.Preferred = @ \/ o.Preferred,
              !.Merged = @ \/ o.Merged,
              !.KeyName = IF o.KeyName # "" THEN o.KeyName ELSE @,
              !.Issue = IF o.Issue.Issue # "" THEN o.Issue ELSE @,
              !.LocalError = IF o.LocalError THEN TRUE ELSE @,
              !.Failed = o.Failed,
              !.Undefined = IF o.Undefined THEN TRUE ELSE @,
              !.NodeFlags = @ \cup o.NodeFlags,
              !.Cleanups = @ \o o.Cleanups]

\* EvaluationInfo.Join; the Cleanups are taken by value here (see the slices
\* further down for the arrays behind them)
Join(i, o) ==
    [i EXCEPT !.RedirectPath = IF o.RedirectPath # <<>> THEN o.RedirectPath ELSE @,
              !.Replace = o.Replace,
              !.Preferred = @ \/ o.Preferred,
              !.Merged = @ \/ o.Merged,
              !.KeyName = IF o.KeyName # "" THEN o.KeyName ELSE @,
              !.Issue = IF o.Issue.Issue # "" THEN o.Issue ELSE @,
              !.LocalError = IF o.LocalError THEN TRUE ELSE @,
              !.Failed = IF o.Failed THEN TRUE ELSE @,
              !.Undefined = IF o.Undefined THEN TRUE ELSE @,
              !.NodeFlags = @ \cup o.NodeFlags,
              !.Cleanups = @ \o o.Cleanups]

\* values of an evaluation: nil, a resolved value, or an Expression
NilValue == [type |-> "nil", v |-> "", expansion |-> FALSE]

Value(type, v) == [type |-> type, v |-> v, expansion |-> FALSE]

\* an Expression, with the list expansion wrapper ("x...") it may carry
Expr(id, expansion) == [type |-> "expr", v |-> id, expansion |-> expansion]

IsExpression(v) == v.type = "expr"

IsListExpansion(e) == e.type = "expr" /\ e.expansion

\* KeepArgWrapper(v, orig): v under the argument wrapper of orig
KeepArgWrapper(v, orig) == [v EXCEPT !.expansion = @ \/ IsListExpansion(orig)]

\* an optional *EvaluationInfo
NilInfo == [isnil |-> TRUE, info |-> DefaultInfo]

InfoPtr(i) == [isnil |-> FALSE, info |-> i]

\* (*e).Evaluate(binding, locally): what the binding makes of the expression
EvaluateExpr(e, b, locally) == b[e.v]

\* a helper that takes a deferred expression for a failure
ResolveDeferredFails(e, resolved, info, b, locally) ==
    LET out == EvaluateExpr(e, b, locally)
        infoe == IF ~info.isnil THEN Join(info.info, out.info) ELSE out.info
    IN  IF ~out.ok \/ IsExpression(out.val)
        THEN [value |-> NilValue, info |-> infoe, ok |-> FALSE, e |-> e, resolved |-> resolved]
        ELSE [value |-> out.val, info |-> infoe, ok |-> TRUE, e |-> e, resolved |-> resolved]

\* ResolveExpressionOrPushEvaluation: the triple returned, and what is left
\* behind the pointers e and resolved
ResolveExpressionOrPushEvaluation(e, resolved, info, b, locally) ==
    LET out == EvaluateExpr(e, b, locally)
        infoe == IF ~info.isnil THEN Join(info.info, out.info) ELSE out.info
    IN  IF ~out.ok
        THEN [value |-> NilValue, info |-> infoe, ok |-> FALSE, e |-> e, resolved |-> resolved]
        ELSE IF IsExpression(out.val)
        THEN [value |-> NilValue, info |-> infoe, ok |-> TRUE,
              e |-> KeepArgWrapper(out.val, e), resolved |-> FALSE]
        ELSE [value |-> out.val, info |-> infoe, ok |-> TRUE, e |-> e, resolved |-> resolved]

\* ------------------------------------------------------------------- state
VARIABLES
    \* the flow driver, spec.md 4.F: the arguments of Apply ...
    template, prepared_stubs, binding, options,
    \* ... and the loop: the tree, prev_unresolved_count, the count found by
    \* every pass so far, the position in the loop and the value returned
    tree, prev_unresolved_count, counts, flowpc, applied

flowVars == <<template, prepared_stubs, binding, options,
              tree, prev_unresolved_count, counts, flowpc, applied>>

VARIABLES
    \* a reference lookup: the binding, the name, the position, the result
    refBinding, refName, refpc, refResult

refVars == <<refBinding, refName, refpc, refResult>>

VARIABLES
    \* a call of ResolveExpressionOrPushEvaluation: the expression behind e,
    \* the flag behind resolved, the info argument, the binding, the position
    \* and what the call returned
    argE, argResolved, argInfo, argBinding, argLocally, respc, resReturn

resVars == <<argE, argResolved, argInfo, argBinding, argLocally, respc, resReturn>>

VARIABLES
    \* infos and their cleanups: the arrays behind the Cleanups slices, the
    \* infos alive, how often every cleanup was invoked
    arrays, infos, invoked

infoVars == <<arrays, infos, invoked>>

VARIABLES
    \* contexts of package spiffing: the contexts alive, the tag maps and the
    \* bindings they point to, the calls made, the last call and whether the
    \* program still runs
    contexts, tagmaps, bindings, calls, lastCall, ctxpc

ctxVars == <<contexts, tagmaps, bindings, calls, lastCall, ctxpc>>

VARIABLES
    \* a run of merge(): the options, the stubs and the documents of the
    \* template as parsed, the prepared stubs and the error of their
    \* preparation, the index of the stub and of the document at hand, the
    \* result list, what was printed, the position, and for every document
    \* gone through what became of it
    processingOptions, stubYAMLs, templateYAMLs, preparedYAMLs, prepareErr,
    stubNo, no, result, stdout, mergepc, flowedLog

mergeVars == <<processingOptions, stubYAMLs, templateYAMLs, preparedYAMLs,
               prepareErr, stubNo, no, result, stdout, mergepc, flowedLog>>

VARIABLES
    \* a run of the generated parser: the text in Buffer, what every rule of
    \* the rules array returns at every position of the buffer (the position
    \* after the match, -1 for false), and the outcome of Parse
    parserBuffer, parserRules, parserpc

parseVars == <<parserBuffer, parserRules, parserpc>>

VARIABLES
    \* a call of ResolveExpressionListOrPushEvaluation: the list behind list,
    \* the flag behind resolved, the info argument, the binding, the position
    \* and what the call returned and left behind the pointers
    listE, listResolved, listInfo, listBinding, listpc, listReturn

listVars == <<listE, listResolved, listInfo, listBinding, listpc, listReturn>>

VARIABLES
    \* package wireguard: the key at hand, the string at hand, the state of the
    \* default source of math/rand, the position and what ParseKey returned
    keyK, keyS, rngSeed, keypc, keyReturn

keyVars == <<keyK, keyS, rngSeed, keypc, keyReturn>>

VARIABLES
    \* the evaluation of a DynamicExpr: the node the reference resolves to, the
    \* index expression, the position and what Evaluate returned
    dynRoot, dynIndex, dynpc, dynReturn

dynVars == <<dynRoot, dynIndex, dynpc, dynReturn>>

VARIABLES
    \* a chain of Joins: the info joined so far, the operands it was joined
    \* from (the first one is the receiver of the first Join) and the position
    joinInfo, joinOperands, joinpc

joinVars == <<joinInfo, joinOperands, joinpc>>

VARIABLES
    \* a call of CheckTagName: the name, the position and the error returned
    checkName, checkpc, checkErr

checkVars == <<checkName, checkpc, checkErr>>

VARIABLES
    \* a call of addValue: the map m, the name, the value, the position, the
    \* error returned and the map after the call
    valM, valName, valValue, valpc, valReturn

valVars == <<valM, valName, valValue, valpc, valReturn>>

vars == <<flowVars, refVars, resVars, infoVars,
         ctxVars, mergeVars, parseVars, listVars,
         keyVars, dynVars, joinVars, checkVars, valVars>>

\* what a step of one part leaves alone: the state of the other parts
flowOthers == <<refVars, resVars, infoVars, ctxVars, mergeVars, parseVars, listVars, keyVars, dynVars, joinVars, checkVars, valVars>>

refOthers == <<flowVars, resVars, infoVars, ctxVars, mergeVars, parseVars, listVars, keyVars, dynVars, joinVars, checkVars, valVars>>

resOthers == <<flowVars, refVars, infoVars, ctxVars, mergeVars, parseVars, listVars, keyVars, dynVars, joinVars, checkVars, valVars>>

infoOthers == <<flowVars, refVars, resVars, ctxVars, mergeVars, parseVars, listVars, keyVars, dynVars, joinVars, checkVars, valVars>>

ctxOthers == <<flowVars, refVars, resVars, infoVars, mergeVars, parseVars, listVars, keyVars, dynVars, joinVars, checkVars, valVars>>

\* merge() enters the flow: its steps say what becomes of the flow's state
mergeOthers == <<refVars, resVars, infoVars, ctxVars, parseVars, listVars, keyVars, dynVars, joinVars, checkVars, valVars>>

parseOthers == <<flowVars, refVars, resVars, infoVars, ctxVars, mergeVars, listVars, keyVars, dynVars, joinVars, checkVars, valVars>>

listOthers == <<flowVars, refVars, resVars, infoVars, ctxVars, mergeVars, parseVars, keyVars, dynVars, joinVars, checkVars, valVars>>

keyOthers == <<flowVars, refVars, resVars, infoVars, ctxVars, mergeVars, parseVars, listVars, dynVars, joinVars, checkVars, valVars>>

dynOthers == <<flowVars, refVars, resVars, infoVars, ctxVars, mergeVars, parseVars, listVars, keyVars, joinVars, checkVars, valVars>>

joinOthers == <<flowVars, refVars, resVars, infoVars, ctxVars, mergeVars, parseVars, listVars, keyVars, dynVars, checkVars, valVars>>

checkOthers == <<flowVars, refVars, resVars, infoVars, ctxVars, mergeVars, parseVars, listVars, keyVars, dynVars, joinVars, valVars>>

valOthers == <<flowVars, refVars, resVars, infoVars, ctxVars, mergeVars, parseVars, listVars, keyVars, dynVars, joinVars, checkVars>>

\* ------------------------------------------------------ inputs of the driver
\* the names a document may define or refer to; 0 is never a key of a template
Names == 0..MaxNodes

\* the node a template may hold under key k
TemplateNodes(k) ==
    {ValNode(k, v, t) : v \in {"t", "((! x ))"}, t \in BOOLEAN}
        \cup {ExprNode(k, r, t) : r \in Names, t \in BOOLEAN}

\* the entries of a template of n keys, key i at position i; at most one of
\* them is flagged Temporary
TemplateEntries(n) ==
    {ns \in [1..n -> UNION {TemplateNodes(k) : k \in 1..n}] :
        /\ \A i \in 1..n : ns[i].key = i
        /\ Cardinality({i \in 1..n : ns[i].temp}) <= 1}

Templates(flags) ==
    {Doc(t, ns) : t \in flags, ns \in UNION {TemplateEntries(n) : n \in 1..MaxNodes}}

\* stubs as PrepareStubs returns them: resolved, or (with partial) left with
\* an expression that found no value
PreparedStubs ==
    {Doc(FALSE, <<ValNode(0, "s", FALSE)>>),
     Doc(FALSE, <<ValNode(1, "s", FALSE)>>),
     Doc(FALSE, <<[ExprNode(1, 0, FALSE) EXCEPT !.class = "*"]>>)}

PreparedStubLists == {<<>>} \cup {<<s>> : s \in PreparedStubs}

\* the local scopes of the caller's binding (values given with the bindings
\* file or -D): none, or one scope defining one name
LocalScopes == {(k :> ValNode(k, "l", FALSE)) : k \in {1}}

ScopeLists == {<<>>} \cup {<<m>> : m \in LocalScopes}

Options == [partial : BOOLEAN, preserveEscapes : BOOLEAN, preserveTemporary : BOOLEAN]

DefaultOptions == [partial |-> FALSE, preserveEscapes |-> FALSE, preserveTemporary |-> FALSE]

NoResult == [tree |-> NilDoc, err |-> FALSE, issues |-> {}]

\* ------------------------------------------------------ a reference lookup
\* bounds: local scopes of a binding, stubs of a binding
MaxScopes == 2

MaxStubs == 2

\* a local scope defines nothing, or one of the names 0 and 1
RefScopes == {<<>>} \cup {(k :> ValNode(k, "l", FALSE)) : k \in {0, 1}}

\* the root and the stubs define one name
RefDocs == {Doc(FALSE, <<ValNode(k, "t", FALSE)>>) : k \in {0, 1}}

RefInit ==
    /\ refBinding \in {Environment(sc, root, st) :
                          sc \in SeqsOf(RefScopes, 0, MaxScopes),
                          root \in RefDocs \cup {NilDoc},
                          st \in SeqsOf(RefDocs, 0, MaxStubs)}
    /\ refName \in {0, 1}
    /\ refpc = "call"
    /\ refResult = NotFound

RefIdle ==
    /\ refBinding = Environment(<<>>, NilDoc, <<>>)
    /\ refName = 0
    /\ refpc = "idle"
    /\ refResult = NotFound

\* the evaluation of a reference that is neither root-anchored nor tagged
Lookup ==
    /\ refpc = "call"
    /\ refResult' = FindReference(refBinding, refName)
    /\ refpc' = "done"
    /\ UNCHANGED <<refBinding, refName>>
    /\ UNCHANGED refOthers

RefNext == Lookup

\* ------------------------------------------------- the driver, step by step
FlowInit ==
    /\ template \in Templates({FALSE})
    /\ prepared_stubs \in PreparedStubLists
    /\ binding \in {Environment(sc, NilDoc, <<>>) : sc \in ScopeLists}
    /\ options \in Options
    /\ tree = NilDoc
    /\ prev_unresolved_count = Infinite
    /\ counts = <<>>
    /\ flowpc = "start"
    /\ applied = NoResult

FlowIdle ==
    /\ template = NilDoc
    /\ prepared_stubs = <<>>
    /\ binding = Environment(<<>>, NilDoc, <<>>)
    /\ options = DefaultOptions
    /\ tree = NilDoc
    /\ prev_unresolved_count = Infinite
    /\ counts = <<>>
    /\ flowpc = "idle"
    /\ applied = NoResult

\* the binding of the run: the caller's scopes, the prepared stubs
FlowEnv == [binding EXCEPT !.stubs = prepared_stubs]

\* spec.md 4.F 1, 2
ApplyMerge ==
    /\ flowpc = "start"
    /\ tree' = Merge(template, prepared_stubs)
    /\ prev_unresolved_count' = Infinite
    /\ flowpc' = "pass"
    /\ UNCHANGED <<template, prepared_stubs, binding, options, counts, applied>>
    /\ UNCHANGED flowOthers

\* spec.md 4.F 3a, 3b
ApplyPass ==
    /\ flowpc = "pass"
    /\ tree' = FlowPass(tree, FlowEnv)
    /\ counts' = Append(counts, UnresolvedCount(tree'))
    /\ flowpc' = "count"
    /\ UNCHANGED <<template, prepared_stubs, binding, options,
                   prev_unresolved_count, applied>>
    /\ UNCHANGED flowOthers

\* spec.md 4.F 3c
ApplyReturn ==
    /\ flowpc = "count"
    /\ LoopDecision(UnresolvedCount(tree), prev_unresolved_count) = "return"
    /\ applied' = CleanupResult(FlowDone(tree), options)
    /\ flowpc' = "done"
    /\ UNCHANGED <<template, prepared_stubs, binding, options, tree,
                   prev_unresolved_count, counts>>
    /\ UNCHANGED flowOthers

\* spec.md 4.F 3d
ApplyNoProgress ==
    /\ flowpc = "count"
    /\ LoopDecision(UnresolvedCount(tree), prev_unresolved_count) = "noprogress"
    /\ applied' = CleanupResult(FlowFailed(tree, FlowEnv, options.partial), options)
    /\ flowpc' = "failed"
    /\ UNCHANGED <<template, prepared_stubs, binding, options, tree,
                   prev_unresolved_count, counts>>
    /\ UNCHANGED flowOthers

\* spec.md 4.F 3e
ApplyIterate ==
    /\ flowpc = "count"
    /\ LoopDecision(UnresolvedCount(tree), prev_unresolved_count) = "iterate"
    /\ prev_unresolved_count' = Finite(UnresolvedCount(tree))
    /\ flowpc' = "pass"
    /\ UNCHANGED <<template, prepared_stubs, binding, options, tree, counts, applied>>
    /\ UNCHANGED flowOthers

FlowNext == ApplyMerge \/ ApplyPass \/ ApplyReturn \/ ApplyNoProgress \/ ApplyIterate

\* ------------------------------------------- a call of the resolve helper
\* infos a call may meet: the default, an error, a merge, a cleanup
ErrorInfo == [DefaultInfo EXCEPT !.LocalError = TRUE, !.Issue = NewIssue("boom")]

InfoSamples ==
    {DefaultInfo,
     ErrorInfo,
     [DefaultInfo EXCEPT !.Merged = TRUE, !.KeyName = "name", !.NodeFlags = {"temporary"}],
     [DefaultInfo EXCEPT !.Cleanups = <<"c1">>, !.Failed = TRUE]}

\* what an evaluation may return as value: nil, resolved values, a deferred
\* expression with or without the expansion wrapper
ValueSamples ==
    {NilValue, Value("int", "0"), Value("int", "5"), Value("string", "s"),
     Value("list", "l"), Expr("d", FALSE), Expr("d", TRUE)}

Outcomes == [val : ValueSamples, info : InfoSamples, ok : BOOLEAN]

ExprIds == {"x"}

NoReturn == [value |-> NilValue, info |-> DefaultInfo, ok |-> FALSE,
             e |-> Expr("x", FALSE), resolved |-> FALSE]

ResInit ==
    /\ argE \in {Expr(id, x) : id \in ExprIds, x \in BOOLEAN}
    /\ argResolved \in BOOLEAN
    /\ argInfo \in {NilInfo} \cup {InfoPtr(i) : i \in InfoSamples}
    /\ argBinding \in [ExprIds -> Outcomes]
    /\ argLocally \in BOOLEAN
    /\ respc = "call"
    /\ resReturn = NoReturn

ResIdle ==
    /\ argE = Expr("x", FALSE)
    /\ argResolved = FALSE
    /\ argInfo = NilInfo
    /\ argBinding = [id \in ExprIds |-> [val |-> NilValue, info |-> DefaultInfo, ok |-> FALSE]]
    /\ argLocally = FALSE
    /\ respc = "idle"
    /\ resReturn = NoReturn

\* the call; the caller's e and resolved are what the helper left there
CallResolve ==
    /\ respc = "call"
    /\ resReturn' = ResolveExpressionOrPushEvaluation(argE, argResolved, argInfo,
                                                      argBinding, argLocally)
    /\ respc' = "done"
    /\ UNCHANGED <<argE, argResolved, argInfo, argBinding, argLocally>>
    /\ UNCHANGED resOthers

ResNext == CallResolve

\* ResolveIntegerExpressionOrPushEvaluation: a nil value of the helper is
\* returned as (0, info, ok), an int64 as it is, every other value as
\* (0, info, false) with the issue set
ResolveIntegerExpressionOrPushEvaluation(e, resolved, info, b, locally) ==
    LET r == ResolveExpressionOrPushEvaluation(e, resolved, info, b, locally)
    IN  IF r.value = NilValue
        THEN [r EXCEPT !.value = Value("int", "0")]
        ELSE IF r.value.type = "int"
        THEN [r EXCEPT !.ok = TRUE]
        ELSE [r EXCEPT !.value = Value("int", "0"),
                       !.info.Issue = NewIssue("integer operand required"),
                       !.ok = FALSE]

CallResolveInteger ==
    /\ respc = "call"
    /\ resReturn' = ResolveIntegerExpressionOrPushEvaluation(argE, argResolved, argInfo,
                                                             argBinding, argLocally)
    /\ respc' = "done"
    /\ UNCHANGED <<argE, argResolved, argInfo, argBinding, argLocally>>
    /\ UNCHANGED resOthers

IntegerNext == CallResolveInteger

\* --------------------------------------------- infos and their cleanups
\* bounds: infos alive, cleanups registered
MaxInfos == 3

MaxCleanups == 2

\* the capacity an append may allocate beyond the length it needs
SpareCapacities == {0, 1}

\* a slice of Cleanup: the array behind it (0: nil) and its length; the
\* capacity is the length of the array
NilSlice == [arr |-> 0, len |-> 0]

Capacity(as, sl) == IF sl.arr = 0 THEN 0 ELSE Len(as[sl.arr])

Contents(as, sl) == IF sl.arr = 0 THEN <<>> ELSE SubSeq(as[sl.arr], 1, sl.len)

\* append(sl, xs...) with the arrays as: nothing to append returns sl; room in
\* the array behind sl is written in place; otherwise a new array of capacity
\* cap takes the elements of both
GoAppend(as, sl, xs, cap) ==
    IF xs = <<>> THEN [arrays |-> as, slice |-> sl]
    ELSE IF sl.len + Len(xs) <= Capacity(as, sl)
    THEN [arrays |-> [as EXCEPT ![sl.arr] =
                         [k \in DOMAIN @ |->
                             IF k > sl.len /\ k <= sl.len + Len(xs) THEN xs[k - sl.len] ELSE @[k]]],
          slice |-> [arr |-> sl.arr, len |-> sl.len + Len(xs)]]
    ELSE [arrays |-> Append(as, [k \in 1..cap |->
                                    IF k <= sl.len THEN Contents(as, sl)[k]
                                    ELSE IF k <= sl.len + Len(xs) THEN xs[k - sl.len]
                                    ELSE 0]),
          slice |-> [arr |-> Len(as) + 1, len |-> sl.len + Len(xs)]]

\* the capacities an append of n elements to sl may allocate
NewCapacities(sl, n) == {sl.len + n + k : k \in SpareCapacities}

\* a Cleanup() that leaves the list in place
CleanupsKept(sl) == sl

\* EvaluationInfo.Cleanup, i.Cleanups = nil
CleanupsAfterCleanup(sl) == NilSlice

\* how often c stands in a list
Occurrences(list, c) == Cardinality({k \in DOMAIN list : list[k] = c})

Cleanups == 1..MaxCleanups

Registered == {c \in Cleanups : \E a \in DOMAIN arrays : \E k \in DOMAIN arrays[a] : arrays[a][k] = c}

InfoInit ==
    /\ arrays = <<>>
    /\ infos = <<>>
    /\ invoked = [c \in Cleanups |-> 0]

InfoIdle ==
    /\ arrays = <<>>
    /\ infos = <<>>
    /\ invoked = [c \in Cleanups |-> -1]

\* an info enters: DefaultInfo() without cleanups, or an info whose
\* Cleanups holds one cleanup no other info holds yet
NewInfo ==
    /\ Len(infos) < MaxInfos
    /\ \/ /\ infos' = Append(infos, [Cleanups |-> NilSlice])
          /\ UNCHANGED arrays
       \/ \E c \in Cleanups \ Registered : \E cap \in NewCapacities(NilSlice, 1) :
              LET r == GoAppend(arrays, NilSlice, <<c>>, cap)
              IN  /\ arrays' = r.arrays
                  /\ infos' = Append(infos, [Cleanups |-> r.slice])
    /\ UNCHANGED invoked
    /\ UNCHANGED infoOthers

\* j := i.Join(o): the receiver is a copy, the result a new info; i and o
\* stay what they were
JoinInfos ==
    \E i, o \in DOMAIN infos :
    \E cap \in NewCapacities(infos[i].Cleanups, infos[o].Cleanups.len) :
        LET r == GoAppend(arrays, infos[i].Cleanups, Contents(arrays, infos[o].Cleanups), cap)
        IN  /\ Len(infos) < MaxInfos
            /\ arrays' = r.arrays
            /\ infos' = Append(infos, [Cleanups |-> r.slice])
            /\ UNCHANGED invoked
            /\ UNCHANGED infoOthers

\* i.Cleanup(): every entry is invoked, whatever the entries before it
\* returned, and the list of i is set to nil
CleanupInfo ==
    \E i \in DOMAIN infos :
        LET list == Contents(arrays, infos[i].Cleanups)
        IN  /\ invoked' = [c \in Cleanups |-> invoked[c] + Occurrences(list, c)]
            /\ infos' = [infos EXCEPT ![i].Cleanups = CleanupsAfterCleanup(@)]
            /\ UNCHANGED arrays
            /\ UNCHANGED infoOthers

InfoNext == NewInfo \/ JoinInfos \/ CleanupInfo

\* ------------------------------------------------- src/spiffing/spiff.go
\* bounds: the contexts alive, the calls made on them
MaxContexts == 3

MaxCalls == 3

\* the mode bits of a context; the default mode allows both accesses
MODE_OS_ACCESS == "OS_ACCESS"

MODE_FILE_ACCESS == "FILE_ACCESS"

MODE_DEFAULT == {MODE_OS_ACCESS, MODE_FILE_ACCESS}

\* mode & ^MODE_OS_ACCESS
ClearOsAccess(mode) == mode \ {MODE_OS_ACCESS}

\* the tags a processing may gather: global tags of the stubs, stream tags of
\* a template
GlobalTags == {"g"}

StreamTags == {"s"}

\* New(): key and interpolation come from the features of the environment;
\* fs, values, functions, tags and binding are nil (tags 0: the nil map,
\* binding 0: nil)
New(key, interpolation) ==
    [key |-> key, mode |-> MODE_DEFAULT, fs |-> "nil", values |-> "nil",
     functions |-> "nil", tags |-> 0, interpolation |-> interpolation,
     binding |-> 0]

\* a Reset that leaves the binding where it is
ResetKeepsBinding(s) == s

\* s.binding = nil
Reset(s) == [s EXCEPT !.binding = 0]

\* the With* methods work on the copy s of the receiver and return it reset
WithInterpolation(s, b) == Reset([s EXCEPT !.interpolation = b])

WithEncryptionKey(s, key) == Reset([s EXCEPT !.key = key])

\* a WithMode that takes the mode as it is given
WithModeAsGiven(s, mode) == Reset([s EXCEPT !.mode = mode])

WithMode(s, mode) ==
    Reset([s EXCEPT !.mode = IF s.fs # "nil" THEN ClearOsAccess(mode) ELSE mode])

WithFileSystem(s, fs) ==
    Reset([s EXCEPT !.fs = fs,
                    !.mode = IF fs # "nil" THEN ClearOsAccess(@) ELSE @])

WithFunctions(s, functions) == Reset([s EXCEPT !.functions = functions])

\* yaml.Sanitize: the nodes of the values, or an error
Sanitize(values) == [err |-> values = "bad", nodes |-> values]

WithValues(s, values) ==
    Reset([s EXCEPT !.values = IF values # "nil" THEN Sanitize(values).nodes ELSE "nil"])

\* flow.NewState(key, mode, fs).SetFunctions().SetInterpolation(), with the
\* tags of the context's map if it holds any
NewState(s, ms) ==
    [key |-> s.key, mode |-> s.mode, fs |-> s.fs, functions |-> s.functions,
     interpolation |-> s.interpolation,
     tags |-> IF s.tags = 0 THEN {} ELSE ms[s.tags]]

\* flow.NewEnvironment(nil, "context", state), with the values as local scope;
\* the binding holds the tags gathered by the processings run with it, whether
\* stubs were prepared with it, and how many processings used it
NewEnvironment(state, values) ==
    [state |-> state, scope |-> values, global |-> {}, stream |-> {},
     prepared |-> FALSE, uses |-> 0]

\* an assureBinding that builds a binding whether the context has one or not
AssureBindingAlways(cs, bs, ms, c) ==
    [contexts |-> [cs EXCEPT ![c].binding = Len(bs) + 1],
     bindings |-> Append(bs, NewEnvironment(NewState(cs[c], ms), cs[c].values))]

\* assureBinding: a context without binding gets a new one
AssureBinding(cs, bs, ms, c) ==
    IF cs[c].binding = 0
    THEN [contexts |-> [cs EXCEPT ![c].binding = Len(bs) + 1],
          bindings |-> Append(bs, NewEnvironment(NewState(cs[c], ms), cs[c].values))]
    ELSE [contexts |-> cs, bindings |-> bs]

\* flow.ResetStream: the tags of stream scope are cleared
FlowResetStream(bs, b) == [bs EXCEPT ![b].stream = {}]

\* a processing run with binding b: it gathers the global tags G and the
\* stream tags S
FlowProcess(bs, b, G, S) ==
    [bs EXCEPT ![b] = [@ EXCEPT !.global = @ \cup G, !.stream = @ \cup S,
                                !.uses = @ + 1]]

\* flow.PrepareStubs with binding b
FlowPrepareStubs(bs, b, G) ==
    [FlowProcess(bs, b, G, {}) EXCEPT ![b].prepared = TRUE]

EncryptionKey == "env"

CtxInit ==
    /\ \E interpolation \in BOOLEAN : contexts = <<New(EncryptionKey, interpolation)>>
    /\ tagmaps = <<>>
    /\ bindings = <<>>
    /\ calls = 0
    /\ lastCall = [op |-> "New", ctx |-> 1, used |-> 0]
    /\ ctxpc = "run"

CtxIdle ==
    /\ contexts = <<>>
    /\ tagmaps = <<>>
    /\ bindings = <<>>
    /\ calls = 0
    /\ lastCall = [op |-> "none", ctx |-> 0, used |-> 0]
    /\ ctxpc = "idle"

\* a call is made: the program runs and the bound on the calls is not reached
CanCall == ctxpc = "run" /\ calls < MaxCalls

Called(op, c, used) ==
    /\ calls' = calls + 1
    /\ lastCall' = [op |-> op, ctx |-> c, used |-> used]

CallWithInterpolation ==
    \E c \in DOMAIN contexts : \E b \in BOOLEAN :
        /\ CanCall /\ Len(contexts) < MaxContexts
        /\ contexts' = Append(contexts, WithInterpolation(contexts[c], b))
        /\ Called("WithInterpolation", c, 0)
        /\ UNCHANGED <<tagmaps, bindings, ctxpc>>
        /\ UNCHANGED ctxOthers

CallWithEncryptionKey ==
    \E c \in DOMAIN contexts : \E key \in {"k"} :
        /\ CanCall /\ Len(contexts) < MaxContexts
        /\ contexts' = Append(contexts, WithEncryptionKey(contexts[c], key))
        /\ Called("WithEncryptionKey", c, 0)
        /\ UNCHANGED <<tagmaps, bindings, ctxpc>>
        /\ UNCHANGED ctxOthers

CallWithMode ==
    \E c \in DOMAIN contexts : \E mode \in {MODE_DEFAULT, {MODE_FILE_ACCESS}} :
        /\ CanCall /\ Len(contexts) < MaxContexts
        /\ contexts' = Append(contexts, WithMode(contexts[c], mode))
        /\ Called("WithMode", c, 0)
        /\ UNCHANGED <<tagmaps, bindings, ctxpc>>
        /\ UNCHANGED ctxOthers

CallWithFileSystem ==
    \E c \in DOMAIN contexts : \E fs \in {"nil", "fs"} :
        /\ CanCall /\ Len(contexts) < MaxContexts
        /\ contexts' = Append(contexts, WithFileSystem(contexts[c], fs))
        /\ Called("WithFileSystem", c, 0)
        /\ UNCHANGED <<tagmaps, bindings, ctxpc>>
        /\ UNCHANGED ctxOthers

CallWithFunctions ==
    \E c \in DOMAIN contexts : \E functions \in {"f"} :
        /\ CanCall /\ Len(contexts) < MaxContexts
        /\ contexts' = Append(contexts, WithFunctions(contexts[c], functions))
        /\ Called("WithFunctions", c, 0)
        /\ UNCHANGED <<tagmaps, bindings, ctxpc>>
        /\ UNCHANGED ctxOthers

\* values that cannot be sanitized return the error and no context
CallWithValues ==
    \E c \in DOMAIN contexts : \E values \in {"nil", "v", "bad"} :
        /\ CanCall /\ Len(contexts) < MaxContexts
        /\ contexts' = IF values # "nil" /\ Sanitize(values).err
                       THEN contexts
                       ELSE Append(contexts, WithValues(contexts[c], values))
        /\ Called("WithValues", c, 0)
        /\ UNCHANGED <<tagmaps, bindings, ctxpc>>
        /\ UNCHANGED ctxOthers

\* s.tags[tag] = ...: the copy s shares the map of the receiver; an entry
\* assigned to the nil map panics
CallSetTag ==
    \E c \in DOMAIN contexts : \E tag \in {"t"} : \E node \in {"a"} :
        LET m == contexts[c].tags
        IN  /\ CanCall /\ Len(contexts) < MaxContexts
            /\ IF m = 0
               THEN /\ ctxpc' = "panic"
                    /\ UNCHANGED <<contexts, tagmaps>>
               ELSE /\ tagmaps' = [tagmaps EXCEPT ![m] =
                                      {e \in @ : e[1] # tag} \cup {<<tag, node>>}]
                    /\ contexts' = Append(contexts, Reset(contexts[c]))
                    /\ UNCHANGED ctxpc
            /\ Called("SetTag", c, 0)
            /\ UNCHANGED bindings
            /\ UNCHANGED ctxOthers

CallReset ==
    \E c \in DOMAIN contexts :
        /\ CanCall
        /\ contexts' = [contexts EXCEPT ![c] = Reset(@)]
        /\ Called("Reset", c, 0)
        /\ UNCHANGED <<tagmaps, bindings, ctxpc>>
        /\ UNCHANGED ctxOthers

\* ResetStream on a context that holds a binding
CallResetStream ==
    \E c \in DOMAIN contexts :
        /\ CanCall
        /\ contexts[c].binding # 0
        /\ bindings' = FlowResetStream(bindings, contexts[c].binding)
        /\ Called("ResetStream", c, 0)
        /\ UNCHANGED <<contexts, tagmaps, ctxpc>>
        /\ UNCHANGED ctxOthers

\* CleanupTags: no binding, a new and empty map
CallCleanupTags ==
    \E c \in DOMAIN contexts :
        /\ CanCall
        /\ tagmaps' = Append(tagmaps, {})
        /\ contexts' = [contexts EXCEPT ![c] = [@ EXCEPT !.binding = 0,
                                                         !.tags = Len(tagmaps) + 1]]
        /\ Called("CleanupTags", c, 0)
        /\ UNCHANGED <<bindings, ctxpc>>
        /\ UNCHANGED ctxOthers

\* Cascade: Reset, assureBinding, flow.Cascade, and the deferred Reset
CallCascade ==
    \E c \in DOMAIN contexts :
        LET r == [contexts EXCEPT ![c] = Reset(@)]
            a == AssureBinding(r, bindings, tagmaps, c)
            b == a.contexts[c].binding
        IN  /\ CanCall
            /\ bindings' = FlowProcess(a.bindings, b, GlobalTags, StreamTags)
            /\ contexts' = [a.contexts EXCEPT ![c] = Reset(@)]
            /\ Called("Cascade", c, b)
            /\ UNCHANGED <<tagmaps, ctxpc>>
            /\ UNCHANGED ctxOthers

\* PrepareStubs: Reset, assureBinding, flow.PrepareStubs; the stubs provide
\* the global tags G
CallPrepareStubs ==
    \E c \in DOMAIN contexts : \E G \in SUBSET GlobalTags :
        LET r == [contexts EXCEPT ![c] = Reset(@)]
            a == AssureBinding(r, bindings, tagmaps, c)
            b == a.contexts[c].binding
        IN  /\ CanCall
            /\ bindings' = FlowPrepareStubs(a.bindings, b, G)
            /\ contexts' = a.contexts
            /\ Called("PrepareStubs", c, b)
            /\ UNCHANGED <<tagmaps, ctxpc>>
            /\ UNCHANGED ctxOthers

\* ApplyStubs: assureBinding, ResetStream unless stream is given and set,
\* flow.Apply; the template provides the stream tags S
CallApplyStubs ==
    \E c \in DOMAIN contexts : \E stream \in {<<>>, <<TRUE>>} :
    \E S \in SUBSET StreamTags :
        LET a == AssureBinding(contexts, bindings, tagmaps, c)
            b == a.contexts[c].binding
            bs == IF Len(stream) = 0 \/ ~stream[1]
                  THEN FlowResetStream(a.bindings, b)
                  ELSE a.bindings
        IN  /\ CanCall
            /\ bindings' = FlowProcess(bs, b, {}, S)
            /\ contexts' = a.contexts
            /\ Called("ApplyStubs", c, b)
            /\ UNCHANGED <<tagmaps, ctxpc>>
            /\ UNCHANGED ctxOthers

CtxNext ==
    \/ CallWithInterpolation \/ CallWithEncryptionKey \/ CallWithMode
    \/ CallWithFileSystem \/ CallWithFunctions \/ CallWithValues \/ CallSetTag
    \/ CallReset \/ CallResetStream \/ CallCleanupTags
    \/ CallCascade \/ CallPrepareStubs \/ CallApplyStubs

\* ------------------------------------------------------ src/cmd/merge.go
\* bound: the documents of the template file
MaxDocs == 2

\* the binding of a run without bindings file, tags or values
ContextBinding == Environment(<<>>, NilDoc, <<>>)

\* a run that goes on whatever the error
FatalNever(partial, err) == FALSE

\* log.Fatalln on an error unless partial is set
Fatal(partial, err) == ~partial /\ err

\* dynaml.ResetUnresolvedNodes: the unresolved nodes become plain
\* expressions again, without the marks of the failed run
ResetUnresolvedNodes(doc) ==
    [doc EXCEPT !.nodes = [i \in DOMAIN doc.nodes |->
                              [doc.nodes[i] EXCEPT !.class = ""]]]

\* a run that emits every document
SkipDocumentNever(o, flowed) == FALSE

\* a document flagged Temporary is skipped unless preserve_temporary
SkipDocument(o, flowed) == ~o.preserveTemporary /\ flowed.temp

\* candiedyaml.Marshal: the entries of the mapping in order, a scalar as it
\* is, an unresolved node as the text of its expression; flags and marks are
\* not part of the text
Marshal(doc) ==
    [nil |-> FALSE,
     entries |-> [i \in DOMAIN doc.nodes |->
                     [key |-> doc.nodes[i].key,
                      scalar |-> doc.nodes[i].val,
                      expression |-> IF doc.nodes[i].kind = "expr"
                                     THEN <<doc.nodes[i].ref>> ELSE <<>>]]]

\* var bytes []byte
NoBytes == [nil |-> TRUE, entries |-> <<>>]

\* the print loop: "---" before a document if there are several or it is
\* empty, then the bytes
Printed(res) ==
    [i \in DOMAIN res |-> [separator |-> Len(res) > 1 \/ res[i].nil,
                           bytes |-> res[i]]]

\* the documents of a template file: without value, or a mapping that is
\* resolved, refers to a name a stub may define, or needs two passes; a node
\* or the whole document may be flagged Temporary
MergeTemplates ==
    {NilDoc} \cup
    {Doc(t, ns) : t \in BOOLEAN,
                  ns \in {<<ValNode(1, "t", FALSE)>>, <<ValNode(1, "t", TRUE)>>,
                          <<ExprNode(1, 0, FALSE)>>, <<ExprNode(1, 0, TRUE)>>,
                          <<ExprNode(1, 2, FALSE), ExprNode(2, 0, FALSE)>>}}

\* the stubs: none, one that defines the name, one that fails to
MergeStubLists ==
    {<<>>, <<Doc(FALSE, <<ValNode(0, "s", FALSE)>>)>>,
           <<Doc(FALSE, <<ExprNode(0, 2, FALSE)>>)>>}

\* the options flow.PrepareStubs runs the flow with: partial as given, the
\* stubs keep what they hold
PrepareOptions(partial) ==
    [partial |-> partial, preserveEscapes |-> TRUE, preserveTemporary |-> TRUE]

\* the flow is entered with a document, the stubs and the options
CallFlow(doc, ps, o) ==
    /\ template' = doc
    /\ prepared_stubs' = ps
    /\ binding' = ContextBinding
    /\ options' = o
    /\ tree' = NilDoc
    /\ prev_unresolved_count' = Infinite
    /\ counts' = <<>>
    /\ flowpc' = "start"
    /\ applied' = NoResult

\* the flow has returned
FlowReturned == flowpc \in {"done", "failed"}

\* the state when the files are parsed; merge is run with the
\* processingOptions as opts
MergeInit ==
    /\ processingOptions \in Options
    /\ stubYAMLs \in MergeStubLists
    /\ templateYAMLs \in SeqsOf(MergeTemplates, 1, MaxDocs)
    /\ preparedYAMLs = <<>>
    /\ prepareErr = FALSE
    /\ stubNo = Len(stubYAMLs)
    /\ no = 1
    /\ result = <<>>
    /\ stdout = <<>>
    /\ mergepc = "prepare"
    /\ flowedLog = <<>>

MergeIdle ==
    /\ processingOptions = DefaultOptions
    /\ stubYAMLs = <<>>
    /\ templateYAMLs = <<>>
    /\ preparedYAMLs = <<>>
    /\ prepareErr = FALSE
    /\ stubNo = 0
    /\ no = 0
    /\ result = <<>>
    /\ stdout = <<>>
    /\ mergepc = "idle"
    /\ flowedLog = <<>>

\* flow.PrepareStubs, from the last stub to the first: the flow is run over
\* the stub with the stubs prepared so far
MergePrepareStub ==
    /\ mergepc = "prepare"
    /\ stubNo >= 1
    /\ CallFlow(stubYAMLs[stubNo], preparedYAMLs, PrepareOptions(processingOptions.partial))
    /\ mergepc' = "preparing"
    /\ UNCHANGED <<processingOptions, stubYAMLs, templateYAMLs, preparedYAMLs,
                   prepareErr, stubNo, no, result, stdout, flowedLog>>
    /\ UNCHANGED mergeOthers

MergeStubPrepared ==
    /\ mergepc = "preparing"
    /\ FlowReturned
    /\ preparedYAMLs' = <<applied.tree>> \o preparedYAMLs
    /\ prepareErr' = (prepareErr \/ applied.err)
    /\ stubNo' = stubNo - 1
    /\ mergepc' = "prepare"
    /\ UNCHANGED <<processingOptions, stubYAMLs, templateYAMLs, no, result,
                   stdout, flowedLog>>
    /\ UNCHANGED flowVars
    /\ UNCHANGED mergeOthers

\* flow.PrepareStubs has returned: its error ends the run unless partial
MergePrepared ==
    /\ mergepc = "prepare"
    /\ stubNo = 0
    /\ mergepc' = IF Fatal(processingOptions.partial, prepareErr) THEN "fatal" ELSE "loop"
    /\ UNCHANGED <<processingOptions, stubYAMLs, templateYAMLs, preparedYAMLs,
                   prepareErr, stubNo, no, result, stdout, flowedLog>>
    /\ UNCHANGED flowVars
    /\ UNCHANGED mergeOthers

\* the loop over the documents: a document without value is appended as no
\* bytes, any other is handed to flow.Apply
MergeDocument ==
    /\ mergepc = "loop"
    /\ no <= Len(templateYAMLs)
    /\ IF templateYAMLs[no].isnil
       THEN /\ result' = Append(result, NoBytes)
            /\ flowedLog' = Append(flowedLog, [err |-> FALSE, flowed |-> NilDoc,
                                               out |-> Len(result) + 1])
            /\ no' = no + 1
            /\ UNCHANGED mergepc
            /\ UNCHANGED flowVars
       ELSE /\ CallFlow(templateYAMLs[no], preparedYAMLs, processingOptions)
            /\ mergepc' = "apply"
            /\ UNCHANGED <<result, flowedLog, no>>
    /\ UNCHANGED <<processingOptions, stubYAMLs, templateYAMLs, preparedYAMLs,
                   prepareErr, stubNo, stdout>>
    /\ UNCHANGED mergeOthers

\* flow.Apply has returned: the rest of the round
MergeFlowed ==
    /\ mergepc = "apply"
    /\ FlowReturned
    /\ LET flowed == IF applied.err THEN ResetUnresolvedNodes(applied.tree)
                     ELSE applied.tree
       IN  IF Fatal(processingOptions.partial, applied.err)
           THEN /\ mergepc' = "fatal"
                /\ flowedLog' = Append(flowedLog, [err |-> TRUE, flowed |-> applied.tree,
                                                   out |-> 0])
                /\ UNCHANGED <<result, no>>
           ELSE IF SkipDocument(processingOptions, flowed)
           THEN /\ flowedLog' = Append(flowedLog, [err |-> applied.err, flowed |-> flowed,
                                                   out |-> 0])
                /\ no' = no + 1
                /\ mergepc' = "loop"
                /\ UNCHANGED result
           ELSE /\ result' = Append(result, Marshal(flowed))
                /\ flowedLog' = Append(flowedLog, [err |-> applied.err, flowed |-> flowed,
                                                   out |-> Len(result) + 1])
                /\ no' = no + 1
                /\ mergepc' = "loop"
    /\ UNCHANGED <<processingOptions, stubYAMLs, templateYAMLs, preparedYAMLs,
                   prepareErr, stubNo, stdout>>
    /\ UNCHANGED flowVars
    /\ UNCHANGED mergeOthers

\* the loop is through: the result is printed
MergePrint ==
    /\ mergepc = "loop"
    /\ no > Len(templateYAMLs)
    /\ stdout' = Printed(result)
    /\ mergepc' = "done"
    /\ UNCHANGED <<processingOptions, stubYAMLs, templateYAMLs, preparedYAMLs,
                   prepareErr, stubNo, no, result, flowedLog>>
    /\ UNCHANGED flowVars
    /\ UNCHANGED mergeOthers

\* the steps of merge(), and the steps of the flow it has entered
MergeNext ==
    \/ MergePrepareStub \/ MergeStubPrepared \/ MergePrepared
    \/ MergeDocument \/ MergeFlowed \/ MergePrint
    \/ ApplyMerge \/ ApplyPass \/ ApplyReturn \/ ApplyNoProgress \/ ApplyIterate

\* ------------------------------------------------------ dynaml.peg.go part
\* The parser generated from the grammar of dynaml. A rule of the rules
\* array is a function without arguments that reads the buffer from the
\* parser's position and either moves the position behind what it matched
\* and returns true, or restores the position and returns false. What it
\* does depends on the buffer and the position only, so a rule is written
\* here as an operator from the position it starts at to the position it
\* ends at, -1 standing for false. The operators follow the generated code:
\* ordered choice, greedy repetition that gives nothing back, lookahead that
\* consumes nothing. The token tree records the rules that matched; the
\* actions of the grammar are empty.

\* the rune Init appends to the buffer
endSymbol == "endSymbol"

Lower ==
    {"a", "b", "c", "d", "e", "f", "g", "h", "i", "j", "k", "l", "m",
     "n", "o", "p", "q", "r", "s", "t", "u", "v", "w", "x", "y", "z"}

Upper ==
    {"A", "B", "C", "D", "E", "F", "G", "H", "I", "J", "K", "L", "M",
     "N", "O", "P", "Q", "R", "S", "T", "U", "V", "W", "X", "Y", "Z"}

Digit == {"0", "1", "2", "3", "4", "5", "6", "7", "8", "9"}

\* buffer[position], the buffer ending with the end symbol
RuneAt(buf, position) == IF position < Len(buf) THEN buf[position + 1] ELSE endSymbol

\* if buffer[position] != rune(c) { goto fail }; position++: the position after
\* the rune, -1 where the source leaves the rule with false
Char(buf, position, c) == IF RuneAt(buf, position) = c THEN position + 1 ELSE -1

\* the same for the runes of a keyword one after the other
Chars(buf, position, cs) ==
    IF \A i \in 1..Len(cs) : RuneAt(buf, position + i - 1) = cs[i]
    THEN position + Len(cs) ELSE -1

\* if c := buffer[position]; c < rune(lower) || c > rune(upper) { goto fail }
OneOf(buf, position, range) ==
    IF RuneAt(buf, position) \in range THEN position + 1 ELSE -1

matchDot(buf, position) ==
    IF RuneAt(buf, position) # endSymbol THEN position + 1 ELSE -1

\* the elements of a sequence: the next one runs from where the one before ended
Sequence(first, rest(_)) == IF first < 0 THEN -1 ELSE rest(first)

\* e?: the position is kept where e fails
Query(e, position) == IF e < 0 THEN position ELSE e

\* !e: nothing is consumed
Not(e, position) == IF e < 0 THEN position ELSE -1

\* e*: e is run again from where it ended until it fails; nothing is given back
RECURSIVE ZeroOrMore(_, _)
ZeroOrMore(e(_), position) ==
    LET next == e(position)
    IN  IF next < 0 THEN position ELSE ZeroOrMore(e, next)


\* the call of a rule at a position: what the rule's function returns there
Call(rules, rule, position) == rules[position][rule]

Put(rules, position, row) == [rules EXCEPT ![position] = @ @@ row]

Choice2(c1, c2) ==
    CASE c1 >= 0 -> c1
      [] OTHER -> c2

Choice3(c1, c2, c3) ==
    CASE c1 >= 0 -> c1
      [] c2 >= 0 -> c2
      [] OTHER -> c3

Choice4(c1, c2, c3, c4) ==
    CASE c1 >= 0 -> c1
      [] c2 >= 0 -> c2
      [] c3 >= 0 -> c3
      [] OTHER -> c4

Choice5(c1, c2, c3, c4, c5) ==
    CASE c1 >= 0 -> c1
      [] c2 >= 0 -> c2
      [] c3 >= 0 -> c3
      [] c4 >= 0 -> c4
      [] OTHER -> c5

Choice7(c1, c2, c3, c4, c5, c6, c7) ==
    CASE c1 >= 0 -> c1
      [] c2 >= 0 -> c2
      [] c3 >= 0 -> c3
      [] c4 >= 0 -> c4
      [] c5 >= 0 -> c5
      [] c6 >= 0 -> c6
      [] OTHER -> c7

Choice8(c1, c2, c3, c4, c5, c6, c7, c8) ==
    CASE c1 >= 0 -> c1
      [] c2 >= 0 -> c2
      [] c3 >= 0 -> c3
      [] c4 >= 0 -> c4
      [] c5 >= 0 -> c5
      [] c6 >= 0 -> c6
      [] c7 >= 0 -> c7
      [] OTHER -> c8

Choice13(c1, c2, c3, c4, c5, c6, c7, c8, c9, c10, c11, c12, c13) ==
    CASE c1 >= 0 -> c1
      [] c2 >= 0 -> c2
      [] c3 >= 0 -> c3
      [] c4 >= 0 -> c4
      [] c5 >= 0 -> c5
      [] c6 >= 0 -> c6
      [] c7 >= 0 -> c7
      [] c8 >= 0 -> c8
      [] c9 >= 0 -> c9
      [] c10 >= 0 -> c10
      [] c11 >= 0 -> c11
      [] c12 >= 0 -> c12
      [] OTHER -> c13

\* dynaml.peg.go:713 Dynaml <- ((Prefer / MarkedExpression / Expression) !.)
ruleDynaml(buf, position, rules) ==
    Sequence(Choice3(
                 Call(rules, "Prefer", position),
                 Call(rules, "MarkedExpression", position),
                 Call(rules, "Expression", position)),
             LAMBDA p1 : Not(matchDot(buf, p1),
                               p1))

\* dynaml.peg.go:755 Prefer <- (ws ('p' 'r' 'e' 'f' 'e' 'r') req_ws Expression)
rulePrefer(buf, position, rules) ==
    Sequence(Sequence(Sequence(Call(rules, "ws", position),
                               LAMBDA p1 : Chars(buf, p1, <<"p", "r", "e", "f", "e", "r">>)),
                      LAMBDA p2 : Call(rules, "req_ws", p2)),
             LAMBDA p3 : Call(rules, "Expression", p3))

\* dynaml.peg.go:802 MarkedExpression <- (ws Marker (req_ws SubsequentMarker)* ws MarkerExpression? ws)
ruleMarkedExpression(buf, position, rules) ==
    Sequence(Sequence(Sequence(Sequence(Sequence(Call(rules, "ws", position),
                                                 LAMBDA p1 : Call(rules, "Marker", p1)),
                                        LAMBDA p2 : ZeroOrMore(LAMBDA p3 : Sequence(Call(rules, "req_ws", p3),
                                                                                      LAMBDA p4 : Call(rules, "SubsequentMarker", p4)),
                                                                 p2)),
                               LAMBDA p5 : Call(rules, "ws", p5)),
                      LAMBDA p6 : Query(Call(rules, "MarkerExpression", p6),
                                          p6)),
             LAMBDA p7 : Call(rules, "ws", p7))

\* dynaml.peg.go:851 SubsequentMarker <- Marker
ruleSubsequentMarker(buf, position, rules) ==
    Call(rules, "Marker", position)

\* dynaml.peg.go:868 Marker <- ('&' (('t' 'e' 'm' 'p' 'l' 'a' 't' 'e') / ('t' 'e' 'm' 'p' 'o' 'r' 'a' 'r' 'y') / ('l' 'o' 'c' 'a' 'l') / ('i' 'n' 'j' 'e' 'c' 't') / ('s' 't' 'a' 't' 'e') / ('d' 'e' 'f' 'a' 'u' 'l' 't') / ('d' 'y' 'n' 'a' 'm' 'i' 'c') / TagMarker))
ruleMarker(buf, position, rules) ==
    Sequence(Char(buf, position, "&"),
             LAMBDA p1 : Choice8(
                               Chars(buf, p1, <<"t", "e", "m", "p", "l", "a", "t", "e">>),
                               Chars(buf, p1, <<"t", "e", "m", "p", "o", "r", "a", "r", "y">>),
                               Chars(buf, p1, <<"l", "o", "c", "a", "l">>),
                               Chars(buf, p1, <<"i", "n", "j", "e", "c", "t">>),
                               Chars(buf, p1, <<"s", "t", "a", "t", "e">>),
                               Chars(buf, p1, <<"d", "e", "f", "a", "u", "l", "t">>),
                               Chars(buf, p1, <<"d", "y", "n", "a", "m", "i", "c">>),
                               Call(rules, "TagMarker", p1)))

\* dynaml.peg.go:1102 TagMarker <- ('t' 'a' 'g' ':' '*'? Tag)
ruleTagMarker(buf, position, rules) ==
    Sequence(Sequence(Chars(buf, position, <<"t", "a", "g", ":">>),
                      LAMBDA p1 : Query(Char(buf, p1, "*"),
                                          p1)),
             LAMBDA p2 : Call(rules, "Tag", p2))

\* dynaml.peg.go:1146 MarkerExpression <- Grouped
ruleMarkerExpression(buf, position, rules) ==
    Call(rules, "Grouped", position)

\* dynaml.peg.go:1163 Expression <- ((Scoped / LambdaExpr / Level7) ws)
ruleExpression(buf, position, rules) ==
    Sequence(Choice3(
                 Call(rules, "Scoped", position),
                 Call(rules, "LambdaExpr", position),
                 Call(rules, "Level7", position)),
             LAMBDA p1 : Call(rules, "ws", p1))

\* dynaml.peg.go:1199 Scoped <- (ws Scope ws Expression)
ruleScoped(buf, position, rules) ==
    Sequence(Sequence(Sequence(Call(rules, "ws", position),
                               LAMBDA p1 : Call(rules, "Scope", p1)),
                      LAMBDA p2 : Call(rules, "ws", p2)),
             LAMBDA p3 : Call(rules, "Expression", p3))

\* dynaml.peg.go:1225 Scope <- (CreateScope ws Assignments? ')')
ruleScope(buf, position, rules) ==
    Sequence(Sequence(Sequence(Call(rules, "CreateScope", position),
                               LAMBDA p1 : Call(rules, "ws", p1)),
                      LAMBDA p2 : Query(Call(rules, "Assignments", p2),
                                          p2)),
             LAMBDA p3 : Char(buf, p3, ")"))

\* dynaml.peg.go:1259 CreateScope <- '('
ruleCreateScope(buf, position, rules) ==
    Char(buf, position, "(")

\* dynaml.peg.go:1277 Level7 <- (ws Level6 (req_ws Or)*)
ruleLevel7(buf, position, rules) ==
    Sequence(Sequence(Call(rules, "ws", position),
                      LAMBDA p1 : Call(rules, "Level6", p1)),
             LAMBDA p2 : ZeroOrMore(LAMBDA p3 : Sequence(Call(rules, "req_ws", p3),
                                                           LAMBDA p4 : Call(rules, "Or", p4)),
                                      p2))

\* dynaml.peg.go:1310 Or <- (OrOp req_ws Level6)
ruleOr(buf, position, rules) ==
    Sequence(Sequence(Call(rules, "OrOp", position),
                      LAMBDA p1 : Call(rules, "req_ws", p1)),
             LAMBDA p2 : Call(rules, "Level6", p2))

\* dynaml.peg.go:1333 OrOp <- (('|' '|') / ('/' '/'))
ruleOrOp(buf, position, rules) ==
    Choice2(
        Chars(buf, position, <<"|", "|">>),
        Chars(buf, position, <<"/", "/">>))

\* dynaml.peg.go:1370 Level6 <- (Conditional / Level5)
ruleLevel6(buf, position, rules) ==
    Choice2(
        Call(rules, "Conditional", position),
        Call(rules, "Level5", position))

\* dynaml.peg.go:1397 Conditional <- (Level5 ws '?' Expression ':' Expression)
ruleConditional(buf, position, rules) ==
    Sequence(Sequence(Sequence(Sequence(Sequence(Call(rules, "Level5", position),
                                                 LAMBDA p1 : Call(rules, "ws", p1)),
                                        LAMBDA p2 : Char(buf, p2, "?")),
                               LAMBDA p3 : Call(rules, "Expression", p3)),
                      LAMBDA p4 : Char(buf, p4, ":")),
             LAMBDA p5 : Call(rules, "Expression", p5))

\* dynaml.peg.go:1431 Level5 <- (Level4 Concatenation*)
ruleLevel5(buf, position, rules) ==
    Sequence(Call(rules, "Level4", position),
             LAMBDA p1 : ZeroOrMore(LAMBDA p2 : Call(rules, "Concatenation", p2),
                                      p1))

\* dynaml.peg.go:1458 Concatenation <- (req_ws Level4)
ruleConcatenation(buf, position, rules) ==
    Sequence(Call(rules, "req_ws", position),
             LAMBDA p1 : Call(rules, "Level4", p1))

\* dynaml.peg.go:1478 Level4 <- (Level3 (req_ws (LogOr / LogAnd))*)
ruleLevel4(buf, position, rules) ==
    Sequence(Call(rules, "Level3", position),
             LAMBDA p1 : ZeroOrMore(LAMBDA p2 : Sequence(Call(rules, "req_ws", p2),
                                                           LAMBDA p3 : Choice2(
                                                                             Call(rules, "LogOr", p3),
                                                                             Call(rules, "LogAnd", p3))),
                                      p1))

\* dynaml.peg.go:1518 LogOr <- ('-' 'o' 'r' req_ws Level3)
ruleLogOr(buf, position, rules) ==
    Sequence(Sequence(Chars(buf, position, <<"-", "o", "r">>),
                      LAMBDA p1 : Call(rules, "req_ws", p1)),
             LAMBDA p2 : Call(rules, "Level3", p2))

\* dynaml.peg.go:1550 LogAnd <- ('-' 'a' 'n' 'd' req_ws Level3)
ruleLogAnd(buf, position, rules) ==
    Sequence(Sequence(Chars(buf, position, <<"-", "a", "n", "d">>),
                      LAMBDA p1 : Call(rules, "req_ws", p1)),
             LAMBDA p2 : Call(rules, "Level3", p2))

\* dynaml.peg.go:1586 Level3 <- (Level2 (req_ws Comparison)*)
ruleLevel3(buf, position, rules) ==
    Sequence(Call(rules, "Level2", position),
             LAMBDA p1 : ZeroOrMore(LAMBDA p2 : Sequence(Call(rules, "req_ws", p2),
                                                           LAMBDA p3 : Call(rules, "Comparison", p3)),
                                      p1))

\* dynaml.peg.go:1616 Comparison <- (CompareOp req_ws Level2)
ruleComparison(buf, position, rules) ==
    Sequence(Sequence(Call(rules, "CompareOp", position),
                      LAMBDA p1 : Call(rules, "req_ws", p1)),
             LAMBDA p2 : Call(rules, "Level2", p2))

\* dynaml.peg.go:1639 CompareOp <- (('=' '=') / ('!' '=') / ('<' '=') / ('>' '=') / '>' / '<' / '>')
ruleCompareOp(buf, position, rules) ==
    Choice7(
        Chars(buf, position, <<"=", "=">>),
        Chars(buf, position, <<"!", "=">>),
        Chars(buf, position, <<"<", "=">>),
        Chars(buf, position, <<">", "=">>),
        Char(buf, position, ">"),
        Char(buf, position, "<"),
        Char(buf, position, ">"))

\* dynaml.peg.go:1719 Level2 <- (Level1 (req_ws (Addition / Subtraction))*)
ruleLevel2(buf, position, rules) ==
    Sequence(Call(rules, "Level1", position),
             LAMBDA p1 : ZeroOrMore(LAMBDA p2 : Sequence(Call(rules, "req_ws", p2),
                                                           LAMBDA p3 : Choice2(
                                                                             Call(rules, "Addition", p3),
                                                                             Call(rules, "Subtraction", p3))),
                                      p1))

\* Addition with an operand of level 0
AdditionOfLevel0(buf, position, rules) ==
    Sequence(Sequence(Char(buf, position, "+"),
                      LAMBDA p1 : Call(rules, "req_ws", p1)),
             LAMBDA p2 : Call(rules, "Level0", p2))

\* dynaml.peg.go:1759 Addition <- ('+' req_ws Level1)
ruleAddition(buf, position, rules) ==
    Sequence(Sequence(Char(buf, position, "+"),
                      LAMBDA p1 : Call(rules, "req_ws", p1)),
             LAMBDA p2 : Call(rules, "Level1", p2))

\* dynaml.peg.go:1783 Subtraction <- ('-' req_ws Level1)
ruleSubtraction(buf, position, rules) ==
    Sequence(Sequence(Char(buf, position, "-"),
                      LAMBDA p1 : Call(rules, "req_ws", p1)),
             LAMBDA p2 : Call(rules, "Level1", p2))

\* dynaml.peg.go:1807 Level1 <- (Level0 (req_ws (Multiplication / Division / Modulo))*)
ruleLevel1(buf, position, rules) ==
    Sequence(Call(rules, "Level0", position),
             LAMBDA p1 : ZeroOrMore(LAMBDA p2 : Sequence(Call(rules, "req_ws", p2),
                                                           LAMBDA p3 : Choice3(
                                                                             Call(rules, "Multiplication", p3),
                                                                             Call(rules, "Division", p3),
                                                                             Call(rules, "Modulo", p3))),
                                      p1))

\* dynaml.peg.go:1853 Multiplication <- ('*' req_ws Level0)
ruleMultiplication(buf, position, rules) ==
    Sequence(Sequence(Char(buf, position, "*"),
                      LAMBDA p1 : Call(rules, "req_ws", p1)),
             LAMBDA p2 : Call(rules, "Level0", p2))

\* dynaml.peg.go:1877 Division <- ('/' req_ws Level0)
ruleDivision(buf, position, rules) ==
    Sequence(Sequence(Char(buf, position, "/"),
                      LAMBDA p1 : Call(rules, "req_ws", p1)),
             LAMBDA p2 : Call(rules, "Level0", p2))

\* dynaml.peg.go:1901 Modulo <- ('%' req_ws Level0)
ruleModulo(buf, position, rules) ==
    Sequence(Sequence(Char(buf, position, "%"),
                      LAMBDA p1 : Call(rules, "req_ws", p1)),
             LAMBDA p2 : Call(rules, "Level0", p2))

\* dynaml.peg.go:1925 Level0 <- (IP / String / Number / Boolean / Undefined / Nil / Symbol / Not / Substitution / Merge / Auto / Lambda / Chained)
ruleLevel0(buf, position, rules) ==
    Choice13(
        Call(rules, "IP", position),
        Call(rules, "String", position),
        Call(rules, "Number", position),
        Call(rules, "Boolean", position),
        Call(rules, "Undefined", position),
        Call(rules, "Nil", position),
        Call(rules, "Symbol", position),
        Call(rules, "Not", position),
        Call(rules, "Substitution", position),
        Call(rules, "Merge", position),
        Call(rules, "Auto", position),
        Call(rules, "Lambda", position),
        Call(rules, "Chained", position))

\* dynaml.peg.go:2018 Chained <- ((MapMapping / Sync / Catch / Mapping / MapSelection / Selection / Sum / List / Map / Range / Grouped / Reference / TopIndex) ChainedQualifiedExpression*)
ruleChained(buf, position, rules) ==
    Sequence(Choice13(
                 Call(rules, "MapMapping", position),
                 Call(rules, "Sync", position),
                 Call(rules, "Catch", position),
                 Call(rules, "Mapping", position),
                 Call(rules, "MapSelection", position),
                 Call(rules, "Selection", position),
                 Call(rules, "Sum", position),
                 Call(rules, "List", position),
                 Call(rules, "Map", position),
                 Call(rules, "Range", position),
                 Call(rules, "Grouped", position),
                 Call(rules, "Reference", position),
                 Call(rules, "TopIndex", position)),
             LAMBDA p1 : ZeroOrMore(LAMBDA p2 : Call(rules, "ChainedQualifiedExpression", p2),
                                      p1))

\* dynaml.peg.go:2121 ChainedQualifiedExpression <- (ChainedCall / Currying / ChainedRef / ChainedDynRef / Projection)
ruleChainedQualifiedExpression(buf, position, rules) ==
    Choice5(
        Call(rules, "ChainedCall", position),
        Call(rules, "Currying", position),
        Call(rules, "ChainedRef", position),
        Call(rules, "ChainedDynRef", position),
        Call(rules, "Projection", position))

\* dynaml.peg.go:2166 ChainedRef <- (PathComponent FollowUpRef)
ruleChainedRef(buf, position, rules) ==
    Sequence(Call(rules, "PathComponent", position),
             LAMBDA p1 : Call(rules, "FollowUpRef", p1))

\* dynaml.peg.go:2186 ChainedDynRef <- ('.'? '[' Expression ']')
ruleChainedDynRef(buf, position, rules) ==
    Sequence(Sequence(Sequence(Query(Char(buf, position, "."),
                                     position),
                               LAMBDA p1 : Char(buf, p1, "[")),
                      LAMBDA p2 : Call(rules, "Expression", p2)),
             LAMBDA p3 : Char(buf, p3, "]"))

\* dynaml.peg.go:2222 TopIndex <- ('.' '[' Expression ']')
ruleTopIndex(buf, position, rules) ==
    Sequence(Sequence(Chars(buf, position, <<".", "[">>),
                      LAMBDA p1 : Call(rules, "Expression", p1)),
             LAMBDA p2 : Char(buf, p2, "]"))

\* dynaml.peg.go:2251 Slice <- Range
ruleSlice(buf, position, rules) ==
    Call(rules, "Range", position)

\* dynaml.peg.go:2268 Currying <- ('*' ChainedCall)
ruleCurrying(buf, position, rules) ==
    Sequence(Char(buf, position, "*"),
             LAMBDA p1 : Call(rules, "ChainedCall", p1))

\* dynaml.peg.go:2289 ChainedCall <- (StartArguments NameArgumentList? ')')
ruleChainedCall(buf, position, rules) ==
    Sequence(Sequence(Call(rules, "StartArguments", position),
                      LAMBDA p1 : Query(Call(rules, "NameArgumentList", p1),
                                          p1)),
             LAMBDA p2 : Char(buf, p2, ")"))

\* dynaml.peg.go:2320 StartArguments <- ('(' ws)
ruleStartArguments(buf, position, rules) ==
    Sequence(Char(buf, position, "("),
             LAMBDA p1 : Call(rules, "ws", p1))

\* dynaml.peg.go:2341 NameArgumentList <- (((NextNameArgument (',' NextNameArgument)*) / NextExpression) (',' NextExpression)*)
ruleNameArgumentList(buf, position, rules) ==
    Sequence(Choice2(
                 Sequence(Call(rules, "NextNameArgument", position),
                          LAMBDA p1 : ZeroOrMore(LAMBDA p2 : Sequence(Char(buf, p2, ","),
                                                                        LAMBDA p3 : Call(rules, "NextNameArgument", p3)),
                                                   p1)),
                 Call(rules, "NextExpression", position)),
             LAMBDA p4 : ZeroOrMore(LAMBDA p5 : Sequence(Char(buf, p5, ","),
                                                           LAMBDA p6 : Call(rules, "NextExpression", p6)),
                                      p4))

\* dynaml.peg.go:2396 NextNameArgument <- (ws Name ws '=' ws Expression ws)
ruleNextNameArgument(buf, position, rules) ==
    Sequence(Sequence(Sequence(Sequence(Sequence(Sequence(Call(rules, "ws", position),
                                                          LAMBDA p1 : Call(rules, "Name", p1)),
                                                 LAMBDA p2 : Call(rules, "ws", p2)),
                                        LAMBDA p3 : Char(buf, p3, "=")),
                               LAMBDA p4 : Call(rules, "ws", p4)),
                      LAMBDA p5 : Call(rules, "Expression", p5)),
             LAMBDA p6 : Call(rules, "ws", p6))

\* dynaml.peg.go:2432 ExpressionList <- (NextExpression (',' NextExpression)*)
ruleExpressionList(buf, position, rules) ==
    Sequence(Call(rules, "NextExpression", position),
             LAMBDA p1 : ZeroOrMore(LAMBDA p2 : Sequence(Char(buf, p2, ","),
                                                           LAMBDA p3 : Call(rules, "NextExpression", p3)),
                                      p1))

\* dynaml.peg.go:2463 NextExpression <- (Expression ListExpansion?)
ruleNextExpression(buf, position, rules) ==
    Sequence(Call(rules, "Expression", position),
             LAMBDA p1 : Query(Call(rules, "ListExpansion", p1),
                                 p1))

\* dynaml.peg.go:2490 ListExpansion <- ('.' '.' '.' ws)
ruleListExpansion(buf, position, rules) ==
    Sequence(Chars(buf, position, <<".", ".", ".">>),
             LAMBDA p1 : Call(rules, "ws", p1))

\* dynaml.peg.go:2519 Projection <- ('.'? (('[' '*' ']') / Slice) ProjectionValue ChainedQualifiedExpression*)
ruleProjection(buf, position, rules) ==
    Sequence(Sequence(Sequence(Query(Char(buf, position, "."),
                                     position),
                               LAMBDA p1 : Choice2(
                                                 Chars(buf, p1, <<"[", "*", "]">>),
                                                 Call(rules, "Slice", p1))),
                      LAMBDA p2 : Call(rules, "ProjectionValue", p2)),
             LAMBDA p3 : ZeroOrMore(LAMBDA p4 : Call(rules, "ChainedQualifiedExpression", p4),
                                      p3))

\* dynaml.peg.go:2579 ProjectionValue <- Action0
ruleProjectionValue(buf, position, rules) ==
    Call(rules, "Action0", position)

\* dynaml.peg.go:2596 Substitution <- ('*' Level0)
ruleSubstitution(buf, position, rules) ==
    Sequence(Char(buf, position, "*"),
             LAMBDA p1 : Call(rules, "Level0", p1))

\* dynaml.peg.go:2617 Not <- ('!' ws Level0)
ruleNot(buf, position, rules) ==
    Sequence(Sequence(Char(buf, position, "!"),
                      LAMBDA p1 : Call(rules, "ws", p1)),
             LAMBDA p2 : Call(rules, "Level0", p2))

\* dynaml.peg.go:2641 Grouped <- ('(' Expression ')')
ruleGrouped(buf, position, rules) ==
    Sequence(Sequence(Char(buf, position, "("),
                      LAMBDA p1 : Call(rules, "Expression", p1)),
             LAMBDA p2 : Char(buf, p2, ")"))

\* dynaml.peg.go:2666 Range <- (StartRange Expression? RangeOp Expression? ']')
ruleRange(buf, position, rules) ==
    Sequence(Sequence(Sequence(Sequence(Call(rules, "StartRange", position),
                                        LAMBDA p1 : Query(Call(rules, "Expression", p1),
                                                            p1)),
                               LAMBDA p2 : Call(rules, "RangeOp", p2)),
                      LAMBDA p3 : Query(Call(rules, "Expression", p3),
                                          p3)),
             LAMBDA p4 : Char(buf, p4, "]"))

\* dynaml.peg.go:2710 StartRange <- '['
ruleStartRange(buf, position, rules) ==
    Char(buf, position, "[")

\* dynaml.peg.go:2728 RangeOp <- ('.' '.')
ruleRangeOp(buf, position, rules) ==
    Chars(buf, position, <<".", ".">>)

\* dynaml.peg.go:2750 Number <- ('-'? [0-9] ([0-9] / '_')* ('.' [0-9] [0-9]*)? (('e' / 'E') '-'? [0-9] [0-9]*)? !(':' ':'))
ruleNumber(buf, position, rules) ==
    Sequence(Sequence(Sequence(Sequence(Sequence(Query(Char(buf, position, "-"),
                                                       position),
                                                 LAMBDA p1 : OneOf(buf, p1, Digit)),
                                        LAMBDA p2 : ZeroOrMore(LAMBDA p3 : Choice2(
                                                                                 OneOf(buf, p3, Digit),
                                                                                 Char(buf, p3, "_")),
                                                                 p2)),
                               LAMBDA p4 : Query(Sequence(Sequence(Char(buf, p4, "."),
                                                                     LAMBDA p5 : OneOf(buf, p5, Digit)),
                                                            LAMBDA p6 : ZeroOrMore(LAMBDA p7 : OneOf(buf, p7, Digit),
                                                                                     p6)),
                                                   p4)),
                      LAMBDA p8 : Query(Sequence(Sequence(Sequence(Choice2(
                                                                         Char(buf, p8, "e"),
                                                                         Char(buf, p8, "E")),
                                                                     LAMBDA p9 : Query(Char(buf, p9, "-"),
                                                                                         p9)),
                                                            LAMBDA p10 : OneOf(buf, p10, Digit)),
                                                   LAMBDA p11 : ZeroOrMore(LAMBDA p12 : OneOf(buf, p12, Digit),
                                                                             p11)),
                                          p8)),
             LAMBDA p13 : Not(Chars(buf, p13, <<":", ":">>),
                                p13))

\* dynaml.peg.go:2889 String <- ('"' (('\\' '"') / (!'"' .))* '"')
ruleString(buf, position, rules) ==
    Sequence(Sequence(Char(buf, position, "\""),
                      LAMBDA p1 : ZeroOrMore(LAMBDA p2 : Choice2(
                                                               Chars(buf, p2, <<"\\", "\"">>),
                                                               Sequence(Not(Char(buf, p2, "\""),
                                                                            p2),
                                                                        LAMBDA p3 : matchDot(buf, p3))),
                                               p1)),
             LAMBDA p4 : Char(buf, p4, "\""))

\* dynaml.peg.go:2946 Boolean <- (('t' 'r' 'u' 'e') / ('f' 'a' 'l' 's' 'e'))
ruleBoolean(buf, position, rules) ==
    Choice2(
        Chars(buf, position, <<"t", "r", "u", "e">>),
        Chars(buf, position, <<"f", "a", "l", "s", "e">>))

\* dynaml.peg.go:3003 Nil <- (('n' 'i' 'l') / '~')
ruleNil(buf, position, rules) ==
    Choice2(
        Chars(buf, position, <<"n", "i", "l">>),
        Char(buf, position, "~"))

\* dynaml.peg.go:3040 Undefined <- ('~' '~')
ruleUndefined(buf, position, rules) ==
    Chars(buf, position, <<"~", "~">>)

\* dynaml.peg.go:3062 Symbol <- ('$' Name)
ruleSymbol(buf, position, rules) ==
    Sequence(Char(buf, position, "$"),
             LAMBDA p1 : Call(rules, "Name", p1))

\* dynaml.peg.go:3083 List <- (StartList ExpressionList? ']')
ruleList(buf, position, rules) ==
    Sequence(Sequence(Call(rules, "StartList", position),
                      LAMBDA p1 : Query(Call(rules, "ExpressionList", p1),
                                          p1)),
             LAMBDA p2 : Char(buf, p2, "]"))

\* dynaml.peg.go:3114 StartList <- ('[' ws)
ruleStartList(buf, position, rules) ==
    Sequence(Char(buf, position, "["),
             LAMBDA p1 : Call(rules, "ws", p1))

\* dynaml.peg.go:3135 Map <- (CreateMap ws Assignments? '}')
ruleMap(buf, position, rules) ==
    Sequence(Sequence(Sequence(Call(rules, "CreateMap", position),
                               LAMBDA p1 : Call(rules, "ws", p1)),
                      LAMBDA p2 : Query(Call(rules, "Assignments", p2),
                                          p2)),
             LAMBDA p3 : Char(buf, p3, "}"))

\* dynaml.peg.go:3169 CreateMap <- '{'
ruleCreateMap(buf, position, rules) ==
    Char(buf, position, "{")

\* dynaml.peg.go:3187 Assignments <- (Assignment (',' Assignment)*)
ruleAssignments(buf, position, rules) ==
    Sequence(Call(rules, "Assignment", position),
             LAMBDA p1 : ZeroOrMore(LAMBDA p2 : Sequence(Char(buf, p2, ","),
                                                           LAMBDA p3 : Call(rules, "Assignment", p3)),
                                      p1))

\* dynaml.peg.go:3218 Assignment <- (Expression '=' Expression)
ruleAssignment(buf, position, rules) ==
    Sequence(Sequence(Call(rules, "Expression", position),
                      LAMBDA p1 : Char(buf, p1, "=")),
             LAMBDA p2 : Call(rules, "Expression", p2))

\* dynaml.peg.go:3242 Merge <- (RefMerge / SimpleMerge)
ruleMerge(buf, position, rules) ==
    Choice2(
        Call(rules, "RefMerge", position),
        Call(rules, "SimpleMerge", position))

\* dynaml.peg.go:3269 RefMerge <- ('m' 'e' 'r' 'g' 'e' !(req_ws Required) (req_ws (Replace / On))? req_ws Reference)
ruleRefMerge(buf, position, rules) ==
    Sequence(Sequence(Sequence(Sequence(Chars(buf, position, <<"m", "e", "r", "g", "e">>),
                                        LAMBDA p1 : Not(Sequence(Call(rules, "req_ws", p1),
                                                                   LAMBDA p2 : Call(rules, "Required", p2)),
                                                          p1)),
                               LAMBDA p3 : Query(Sequence(Call(rules, "req_ws", p3),
                                                            LAMBDA p4 : Choice2(
                                                                              Call(rules, "Replace", p4),
                                                                              Call(rules, "On", p4))),
                                                   p3)),
                      LAMBDA p5 : Call(rules, "req_ws", p5)),
             LAMBDA p6 : Call(rules, "Reference", p6))

\* SimpleMerge without the lookahead for '('
SimpleMergeBeforeCall(buf, position, rules) ==
    Sequence(Chars(buf, position, <<"m", "e", "r", "g", "e">>),
             LAMBDA p1 : Query(Sequence(Call(rules, "req_ws", p1),
                                        LAMBDA p2 : Choice3(
                                                        Call(rules, "Replace", p2),
                                                        Call(rules, "Required", p2),
                                                        Call(rules, "On", p2))),
                               p1))

\* dynaml.peg.go:3344 SimpleMerge <- ('m' 'e' 'r' 'g' 'e' !'(' (req_ws (Replace / Required / On))?)
ruleSimpleMerge(buf, position, rules) ==
    Sequence(Sequence(Chars(buf, position, <<"m", "e", "r", "g", "e">>),
                      LAMBDA p1 : Not(Char(buf, p1, "("),
                                        p1)),
             LAMBDA p2 : Query(Sequence(Call(rules, "req_ws", p2),
                                          LAMBDA p3 : Choice3(
                                                            Call(rules, "Replace", p3),
                                                            Call(rules, "Required", p3),
                                                            Call(rules, "On", p3))),
                                 p2))

\* dynaml.peg.go:3417 Replace <- ('r' 'e' 'p' 'l' 'a' 'c' 'e')
ruleReplace(buf, position, rules) ==
    Chars(buf, position, <<"r", "e", "p", "l", "a", "c", "e">>)

\* dynaml.peg.go:3459 Required <- ('r' 'e' 'q' 'u' 'i' 'r' 'e' 'd')
ruleRequired(buf, position, rules) ==
    Chars(buf, position, <<"r", "e", "q", "u", "i", "r", "e", "d">>)

\* dynaml.peg.go:3505 On <- ('o' 'n' req_ws Name)
ruleOn(buf, position, rules) ==
    Sequence(Sequence(Chars(buf, position, <<"o", "n">>),
                      LAMBDA p1 : Call(rules, "req_ws", p1)),
             LAMBDA p2 : Call(rules, "Name", p2))

\* dynaml.peg.go:3533 Auto <- ('a' 'u' 't' 'o')
ruleAuto(buf, position, rules) ==
    Chars(buf, position, <<"a", "u", "t", "o">>)

\* dynaml.peg.go:3563 Default <- Action1
ruleDefault(buf, position, rules) ==
    Call(rules, "Action1", position)

\* dynaml.peg.go:3580 Sync <- ('s' 'y' 'n' 'c' '[' Level7 ((((LambdaExpr LambdaExt) / (LambdaOrExpr LambdaOrExpr)) (('|' Expression) / Default)) / (LambdaOrExpr Default Default)) ']')
ruleSync(buf, position, rules) ==
    Sequence(Sequence(Sequence(Chars(buf, position, <<"s", "y", "n", "c", "[">>),
                               LAMBDA p1 : Call(rules, "Level7", p1)),
                      LAMBDA p2 : Choice2(
                                        Sequence(Choice2(
                                                     Sequence(Call(rules, "LambdaExpr", p2),
                                                              LAMBDA p3 : Call(rules, "LambdaExt", p3)),
                                                     Sequence(Call(rules, "LambdaOrExpr", p2),
                                                              LAMBDA p4 : Call(rules, "LambdaOrExpr", p4))),
                                                 LAMBDA p5 : Choice2(
                                                                   Sequence(Char(buf, p5, "|"),
                                                                            LAMBDA p6 : Call(rules, "Expression", p6)),
                                                                   Call(rules, "Default", p5))),
                                        Sequence(Sequence(Call(rules, "LambdaOrExpr", p2),
                                                          LAMBDA p7 : Call(rules, "Default", p7)),
                                                 LAMBDA p8 : Call(rules, "Default", p8)))),
             LAMBDA p9 : Char(buf, p9, "]"))

\* dynaml.peg.go:3673 LambdaExt <- (',' Expression)
ruleLambdaExt(buf, position, rules) ==
    Sequence(Char(buf, position, ","),
             LAMBDA p1 : Call(rules, "Expression", p1))

\* dynaml.peg.go:3694 LambdaOrExpr <- (LambdaExpr / ('|' Expression))
ruleLambdaOrExpr(buf, position, rules) ==
    Choice2(
        Call(rules, "LambdaExpr", position),
        Sequence(Char(buf, position, "|"),
                 LAMBDA p1 : Call(rules, "Expression", p1)))

\* dynaml.peg.go:3725 Catch <- ('c' 'a' 't' 'c' 'h' '[' Level7 LambdaOrExpr ']')
ruleCatch(buf, position, rules) ==
    Sequence(Sequence(Sequence(Chars(buf, position, <<"c", "a", "t", "c", "h", "[">>),
                               LAMBDA p1 : Call(rules, "Level7", p1)),
                      LAMBDA p2 : Call(rules, "LambdaOrExpr", p2)),
             LAMBDA p3 : Char(buf, p3, "]"))

\* dynaml.peg.go:3773 MapMapping <- ('m' 'a' 'p' '{' Level7 LambdaOrExpr '}')
ruleMapMapping(buf, position, rules) ==
    Sequence(Sequence(Sequence(Chars(buf, position, <<"m", "a", "p", "{">>),
                               LAMBDA p1 : Call(rules, "Level7", p1)),
                      LAMBDA p2 : Call(rules, "LambdaOrExpr", p2)),
             LAMBDA p3 : Char(buf, p3, "}"))

\* dynaml.peg.go:3813 Mapping <- ('m' 'a' 'p' '[' Level7 LambdaOrExpr ']')
ruleMapping(buf, position, rules) ==
    Sequence(Sequence(Sequence(Chars(buf, position, <<"m", "a", "p", "[">>),
                               LAMBDA p1 : Call(rules, "Level7", p1)),
                      LAMBDA p2 : Call(rules, "LambdaOrExpr", p2)),
             LAMBDA p3 : Char(buf, p3, "]"))

\* dynaml.peg.go:3853 MapSelection <- ('s' 'e' 'l' 'e' 'c' 't' '{' Level7 LambdaOrExpr '}')
ruleMapSelection(buf, position, rules) ==
    Sequence(Sequence(Sequence(Chars(buf, position, <<"s", "e", "l", "e", "c", "t", "{">>),
                               LAMBDA p1 : Call(rules, "Level7", p1)),
                      LAMBDA p2 : Call(rules, "LambdaOrExpr", p2)),
             LAMBDA p3 : Char(buf, p3, "}"))

\* dynaml.peg.go:3905 Selection <- ('s' 'e' 'l' 'e' 'c' 't' '[' Level7 LambdaOrExpr ']')
ruleSelection(buf, position, rules) ==
    Sequence(Sequence(Sequence(Chars(buf, position, <<"s", "e", "l", "e", "c", "t", "[">>),
                               LAMBDA p1 : Call(rules, "Level7", p1)),
                      LAMBDA p2 : Call(rules, "LambdaOrExpr", p2)),
             LAMBDA p3 : Char(buf, p3, "]"))

\* dynaml.peg.go:3957 Sum <- ('s' 'u' 'm' '[' Level7 '|' Level7 LambdaOrExpr ']')
ruleSum(buf, position, rules) ==
    Sequence(Sequence(Sequence(Sequence(Sequence(Chars(buf, position, <<"s", "u", "m", "[">>),
                                                 LAMBDA p1 : Call(rules, "Level7", p1)),
                                        LAMBDA p2 : Char(buf, p2, "|")),
                               LAMBDA p3 : Call(rules, "Level7", p3)),
                      LAMBDA p4 : Call(rules, "LambdaOrExpr", p4)),
             LAMBDA p5 : Char(buf, p5, "]"))

\* dynaml.peg.go:4004 Lambda <- ('l' 'a' 'm' 'b' 'd' 'a' (LambdaRef / LambdaExpr))
ruleLambda(buf, position, rules) ==
    Sequence(Chars(buf, position, <<"l", "a", "m", "b", "d", "a">>),
             LAMBDA p1 : Choice2(
                               Call(rules, "LambdaRef", p1),
                               Call(rules, "LambdaExpr", p1)))

\* dynaml.peg.go:4055 LambdaRef <- (req_ws Expression)
ruleLambdaRef(buf, position, rules) ==
    Sequence(Call(rules, "req_ws", position),
             LAMBDA p1 : Call(rules, "Expression", p1))

\* dynaml.peg.go:4075 LambdaExpr <- (ws Params ws ('-' '>') Expression)
ruleLambdaExpr(buf, position, rules) ==
    Sequence(Sequence(Sequence(Sequence(Call(rules, "ws", position),
                                        LAMBDA p1 : Call(rules, "Params", p1)),
                               LAMBDA p2 : Call(rules, "ws", p2)),
                      LAMBDA p3 : Chars(buf, p3, <<"-", ">">>)),
             LAMBDA p4 : Call(rules, "Expression", p4))

\* dynaml.peg.go:4109 Params <- ('|' StartParams ws Names? '|')
ruleParams(buf, position, rules) ==
    Sequence(Sequence(Sequence(Sequence(Char(buf, position, "|"),
                                        LAMBDA p1 : Call(rules, "StartParams", p1)),
                               LAMBDA p2 : Call(rules, "ws", p2)),
                      LAMBDA p3 : Query(Call(rules, "Names", p3),
                                          p3)),
             LAMBDA p4 : Char(buf, p4, "|"))

\* dynaml.peg.go:4147 StartParams <- Action2
ruleStartParams(buf, position, rules) ==
    Call(rules, "Action2", position)

\* dynaml.peg.go:4164 Names <- (NextName (',' NextName)* DefaultValue? (',' NextName DefaultValue)* VarParams?)
ruleNames(buf, position, rules) ==
    Sequence(Sequence(Sequence(Sequence(Call(rules, "NextName", position),
                                        LAMBDA p1 : ZeroOrMore(LAMBDA p2 : Sequence(Char(buf, p2, ","),
                                                                                      LAMBDA p3 : Call(rules, "NextName", p3)),
                                                                 p1)),
                               LAMBDA p4 : Query(Call(rules, "DefaultValue", p4),
                                                   p4)),
                      LAMBDA p5 : ZeroOrMore(LAMBDA p6 : Sequence(Sequence(Char(buf, p6, ","),
                                                                             LAMBDA p7 : Call(rules, "NextName", p7)),
                                                                    LAMBDA p8 : Call(rules, "DefaultValue", p8)),
                                               p5)),
             LAMBDA p9 : Query(Call(rules, "VarParams", p9),
                                 p9))

\* dynaml.peg.go:4232 NextName <- (ws Name ws)
ruleNextName(buf, position, rules) ==
    Sequence(Sequence(Call(rules, "ws", position),
                      LAMBDA p1 : Call(rules, "Name", p1)),
             LAMBDA p2 : Call(rules, "ws", p2))

\* dynaml.peg.go:4255 Name <- ([a-z] / [A-Z] / [0-9] / '_')+
ruleName(buf, position, rules) ==
    Sequence(Choice4(
                 OneOf(buf, position, Lower),
                 OneOf(buf, position, Upper),
                 OneOf(buf, position, Digit),
                 Char(buf, position, "_")),
             LAMBDA p1 : ZeroOrMore(LAMBDA p2 : Choice4(
                                                          OneOf(buf, p2, Lower),
                                                          OneOf(buf, p2, Upper),
                                                          OneOf(buf, p2, Digit),
                                                          Char(buf, p2, "_")),
                                   p1))

\* dynaml.peg.go:4334 DefaultValue <- ('=' Expression)
ruleDefaultValue(buf, position, rules) ==
    Sequence(Char(buf, position, "="),
             LAMBDA p1 : Call(rules, "Expression", p1))

\* dynaml.peg.go:4355 VarParams <- ('.' '.' '.' ws)
ruleVarParams(buf, position, rules) ==
    Sequence(Chars(buf, position, <<".", ".", ".">>),
             LAMBDA p1 : Call(rules, "ws", p1))

\* dynaml.peg.go:4384 Reference <- (((TagPrefix ('.' / Key)) / ('.'? Key)) FollowUpRef)
ruleReference(buf, position, rules) ==
    Sequence(Choice2(
                 Sequence(Call(rules, "TagPrefix", position),
                          LAMBDA p1 : Choice2(
                                            Char(buf, p1, "."),
                                            Call(rules, "Key", p1))),
                 Sequence(Query(Char(buf, position, "."),
                                position),
                          LAMBDA p2 : Call(rules, "Key", p2))),
             LAMBDA p3 : Call(rules, "FollowUpRef", p3))

\* dynaml.peg.go:4439 TagPrefix <- ((('d' 'o' 'c' ('.' / ':') '-'? [0-9]+) / Tag) (':' ':'))
ruleTagPrefix(buf, position, rules) ==
    Sequence(Choice2(
                 Sequence(Sequence(Sequence(Chars(buf, position, <<"d", "o", "c">>),
                                            LAMBDA p1 : Choice2(
                                                              Char(buf, p1, "."),
                                                              Char(buf, p1, ":"))),
                                   LAMBDA p2 : Query(Char(buf, p2, "-"),
                                                       p2)),
                          LAMBDA p3 : Sequence(OneOf(buf, p3, Digit),
                                                 LAMBDA p4 : ZeroOrMore(LAMBDA p5 : OneOf(buf, p5, Digit),
                                                                       p4))),
                 Call(rules, "Tag", position)),
             LAMBDA p6 : Chars(buf, p6, <<":", ":">>))

\* dynaml.peg.go:4524 Tag <- (TagComponent (('.' / ':') TagComponent)*)
ruleTag(buf, position, rules) ==
    Sequence(Call(rules, "TagComponent", position),
             LAMBDA p1 : ZeroOrMore(LAMBDA p2 : Sequence(Choice2(
                                                               Char(buf, p2, "."),
                                                               Char(buf, p2, ":")),
                                                           LAMBDA p3 : Call(rules, "TagComponent", p3)),
                                      p1))

\* dynaml.peg.go:4566 TagComponent <- (([a-z] / [A-Z] / '_') ([a-z] / [A-Z] / [0-9] / '_')*)
ruleTagComponent(buf, position, rules) ==
    Sequence(Choice3(
                 OneOf(buf, position, Lower),
                 OneOf(buf, position, Upper),
                 Char(buf, position, "_")),
             LAMBDA p1 : ZeroOrMore(LAMBDA p2 : Choice4(
                                                      OneOf(buf, p2, Lower),
                                                      OneOf(buf, p2, Upper),
                                                      OneOf(buf, p2, Digit),
                                                      Char(buf, p2, "_")),
                                      p1))

\* dynaml.peg.go:4638 FollowUpRef <- PathComponent*
ruleFollowUpRef(buf, position, rules) ==
    ZeroOrMore(LAMBDA p1 : Call(rules, "PathComponent", p1),
               position)

\* dynaml.peg.go:4658 PathComponent <- (('.' Key) / ('.'? Index))
rulePathComponent(buf, position, rules) ==
    Choice2(
        Sequence(Char(buf, position, "."),
                 LAMBDA p1 : Call(rules, "Key", p1)),
        Sequence(Query(Char(buf, position, "."),
                       position),
                 LAMBDA p2 : Call(rules, "Index", p2)))

\* dynaml.peg.go:4700 Key <- (([a-z] / [A-Z] / [0-9] / '_') ([a-z] / [A-Z] / [0-9] / '_' / '-')* (':' ([a-z] / [A-Z] / [0-9] / '_') ([a-z] / [A-Z] / [0-9] / '_' / '-')*)?)
ruleKey(buf, position, rules) ==
    Sequence(Sequence(Choice4(
                          OneOf(buf, position, Lower),
                          OneOf(buf, position, Upper),
                          OneOf(buf, position, Digit),
                          Char(buf, position, "_")),
                      LAMBDA p1 : ZeroOrMore(LAMBDA p2 : Choice5(
                                                               OneOf(buf, p2, Lower),
                                                               OneOf(buf, p2, Upper),
                                                               OneOf(buf, p2, Digit),
                                                               Char(buf, p2, "_"),
                                                               Char(buf, p2, "-")),
                                               p1)),
             LAMBDA p3 : Query(Sequence(Sequence(Char(buf, p3, ":"),
                                                   LAMBDA p4 : Choice4(
                                                                     OneOf(buf, p4, Lower),
                                                                     OneOf(buf, p4, Upper),
                                                                     OneOf(buf, p4, Digit),
                                                                     Char(buf, p4, "_"))),
                                          LAMBDA p5 : ZeroOrMore(LAMBDA p6 : Choice5(
                                                                                   OneOf(buf, p6, Lower),
                                                                                   OneOf(buf, p6, Upper),
                                                                                   OneOf(buf, p6, Digit),
                                                                                   Char(buf, p6, "_"),
                                                                                   Char(buf, p6, "-")),
                                                                   p5)),
                                 p3))

\* dynaml.peg.go:4869 Index <- ('[' '-'? [0-9]+ ']')
ruleIndex(buf, position, rules) ==
    Sequence(Sequence(Sequence(Char(buf, position, "["),
                               LAMBDA p1 : Query(Char(buf, p1, "-"),
                                                   p1)),
                      LAMBDA p2 : Sequence(OneOf(buf, p2, Digit),
                                             LAMBDA p3 : ZeroOrMore(LAMBDA p4 : OneOf(buf, p4, Digit),
                                                                   p3))),
             LAMBDA p5 : Char(buf, p5, "]"))

\* dynaml.peg.go:4917 IP <- ([0-9]+ '.' [0-9]+ '.' [0-9]+ '.' [0-9]+)
ruleIP(buf, position, rules) ==
    Sequence(Sequence(Sequence(Sequence(Sequence(Sequence(Sequence(OneOf(buf, position, Digit),
                                                                   LAMBDA p1 : ZeroOrMore(LAMBDA p2 : OneOf(buf, p2, Digit),
                                                                                         p1)),
                                                          LAMBDA p3 : Char(buf, p3, ".")),
                                                 LAMBDA p4 : Sequence(OneOf(buf, p4, Digit),
                                                                        LAMBDA p5 : ZeroOrMore(LAMBDA p6 : OneOf(buf, p6, Digit),
                                                                                              p5))),
                                        LAMBDA p7 : Char(buf, p7, ".")),
                               LAMBDA p8 : Sequence(OneOf(buf, p8, Digit),
                                                      LAMBDA p9 : ZeroOrMore(LAMBDA p10 : OneOf(buf, p10, Digit),
                                                                            p9))),
                      LAMBDA p11 : Char(buf, p11, ".")),
             LAMBDA p12 : Sequence(OneOf(buf, p12, Digit),
                                     LAMBDA p13 : ZeroOrMore(LAMBDA p14 : OneOf(buf, p14, Digit),
                                                           p13)))

\* dynaml.peg.go:5003 ws <- (' ' / '\t' / '\n' / '\r')*
rulews(buf, position, rules) ==
    ZeroOrMore(LAMBDA p1 : Choice4(
                               Char(buf, p1, " "),
                               Char(buf, p1, "\t"),
                               Char(buf, p1, "\n"),
                               Char(buf, p1, "\r")),
               position)

\* dynaml.peg.go:5049 req_ws <- (' ' / '\t' / '\n' / '\r')+
rulereq_ws(buf, position, rules) ==
    Sequence(Choice4(
                 Char(buf, position, " "),
                 Char(buf, position, "\t"),
                 Char(buf, position, "\n"),
                 Char(buf, position, "\r")),
             LAMBDA p1 : ZeroOrMore(LAMBDA p2 : Choice4(
                                                          Char(buf, p2, " "),
                                                          Char(buf, p2, "\t"),
                                                          Char(buf, p2, "\n"),
                                                          Char(buf, p2, "\r")),
                                   p1))

\* dynaml.peg.go:5128 Action0 <- {}
ruleAction0(buf, position, rules) ==
    position

\* dynaml.peg.go:5135 Action1 <- {}
ruleAction1(buf, position, rules) ==
    position

\* dynaml.peg.go:5142 Action2 <- {}
ruleAction2(buf, position, rules) ==
    position

\* dynaml.peg.go:711 the rules array: the function of every rule
Run(rule, buf, position, rules) ==
    CASE rule = "Dynaml" -> ruleDynaml(buf, position, rules)
      [] rule = "Prefer" -> rulePrefer(buf, position, rules)
      [] rule = "MarkedExpression" -> ruleMarkedExpression(buf, position, rules)
      [] rule = "SubsequentMarker" -> ruleSubsequentMarker(buf, position, rules)
      [] rule = "Marker" -> ruleMarker(buf, position, rules)
      [] rule = "TagMarker" -> ruleTagMarker(buf, position, rules)
      [] rule = "MarkerExpression" -> ruleMarkerExpression(buf, position, rules)
      [] rule = "Expression" -> ruleExpression(buf, position, rules)
      [] rule = "Scoped" -> ruleScoped(buf, position, rules)
      [] rule = "Scope" -> ruleScope(buf, position, rules)
      [] rule = "CreateScope" -> ruleCreateScope(buf, position, rules)
      [] rule = "Level7" -> ruleLevel7(buf, position, rules)
      [] rule = "Or" -> ruleOr(buf, position, rules)
      [] rule = "OrOp" -> ruleOrOp(buf, position, rules)
      [] rule = "Level6" -> ruleLevel6(buf, position, rules)
      [] rule = "Conditional" -> ruleConditional(buf, position, rules)
      [] rule = "Level5" -> ruleLevel5(buf, position, rules)
      [] rule = "Concatenation" -> ruleConcatenation(buf, position, rules)
      [] rule = "Level4" -> ruleLevel4(buf, position, rules)
      [] rule = "LogOr" -> ruleLogOr(buf, position, rules)
      [] rule = "LogAnd" -> ruleLogAnd(buf, position, rules)
      [] rule = "Level3" -> ruleLevel3(buf, position, rules)
      [] rule = "Comparison" -> ruleComparison(buf, position, rules)
      [] rule = "CompareOp" -> ruleCompareOp(buf, position, rules)
      [] rule = "Level2" -> ruleLevel2(buf, position, rules)
      [] rule = "Addition" -> ruleAddition(buf, position, rules)
      [] rule = "Subtraction" -> ruleSubtraction(buf, position, rules)
      [] rule = "Level1" -> ruleLevel1(buf, position, rules)
      [] rule = "Multiplication" -> ruleMultiplication(buf, position, rules)
      [] rule = "Division" -> ruleDivision(buf, position, rules)
      [] rule = "Modulo" -> ruleModulo(buf, position, rules)
      [] rule = "Level0" -> ruleLevel0(buf, position, rules)
      [] rule = "Chained" -> ruleChained(buf, position, rules)
      [] rule = "ChainedQualifiedExpression" -> ruleChainedQualifiedExpression(buf, position, rules)
      [] rule = "ChainedRef" -> ruleChainedRef(buf, position, rules)
      [] rule = "ChainedDynRef" -> ruleChainedDynRef(buf, position, rules)
      [] rule = "TopIndex" -> ruleTopIndex(buf, position, rules)
      [] rule = "Slice" -> ruleSlice(buf, position, rules)
      [] rule = "Currying" -> ruleCurrying(buf, position, rules)
      [] rule = "ChainedCall" -> ruleChainedCall(buf, position, rules)
      [] rule = "StartArguments" -> ruleStartArguments(buf, position, rules)
      [] rule = "NameArgumentList" -> ruleNameArgumentList(buf, position, rules)
      [] rule = "NextNameArgument" -> ruleNextNameArgument(buf, position, rules)
      [] rule = "ExpressionList" -> ruleExpressionList(buf, position, rules)
      [] rule = "NextExpression" -> ruleNextExpression(buf, position, rules)
      [] rule = "ListExpansion" -> ruleListExpansion(buf, position, rules)
      [] rule = "Projection" -> ruleProjection(buf, position, rules)
      [] rule = "ProjectionValue" -> ruleProjectionValue(buf, position, rules)
      [] rule = "Substitution" -> ruleSubstitution(buf, position, rules)
      [] rule = "Not" -> ruleNot(buf, position, rules)
      [] rule = "Grouped" -> ruleGrouped(buf, position, rules)
      [] rule = "Range" -> ruleRange(buf, position, rules)
      [] rule = "StartRange" -> ruleStartRange(buf, position, rules)
      [] rule = "RangeOp" -> ruleRangeOp(buf, position, rules)
      [] rule = "Number" -> ruleNumber(buf, position, rules)
      [] rule = "String" -> ruleString(buf, position, rules)
      [] rule = "Boolean" -> ruleBoolean(buf, position, rules)
      [] rule = "Nil" -> ruleNil(buf, position, rules)
      [] rule = "Undefined" -> ruleUndefined(buf, position, rules)
      [] rule = "Symbol" -> ruleSymbol(buf, position, rules)
      [] rule = "List" -> ruleList(buf, position, rules)
      [] rule = "StartList" -> ruleStartList(buf, position, rules)
      [] rule = "Map" -> ruleMap(buf, position, rules)
      [] rule = "CreateMap" -> ruleCreateMap(buf, position, rules)
      [] rule = "Assignments" -> ruleAssignments(buf, position, rules)
      [] rule = "Assignment" -> ruleAssignment(buf, position, rules)
      [] rule = "Merge" -> ruleMerge(buf, position, rules)
      [] rule = "RefMerge" -> ruleRefMerge(buf, position, rules)
      [] rule = "SimpleMerge" -> ruleSimpleMerge(buf, position, rules)
      [] rule = "Replace" -> ruleReplace(buf, position, rules)
      [] rule = "Required" -> ruleRequired(buf, position, rules)
      [] rule = "On" -> ruleOn(buf, position, rules)
      [] rule = "Auto" -> ruleAuto(buf, position, rules)
      [] rule = "Default" -> ruleDefault(buf, position, rules)
      [] rule = "Sync" -> ruleSync(buf, position, rules)
      [] rule = "LambdaExt" -> ruleLambdaExt(buf, position, rules)
      [] rule = "LambdaOrExpr" -> ruleLambdaOrExpr(buf, position, rules)
      [] rule = "Catch" -> ruleCatch(buf, position, rules)
      [] rule = "MapMapping" -> ruleMapMapping(buf, position, rules)
      [] rule = "Mapping" -> ruleMapping(buf, position, rules)
      [] rule = "MapSelection" -> ruleMapSelection(buf, position, rules)
      [] rule = "Selection" -> ruleSelection(buf, position, rules)
      [] rule = "Sum" -> ruleSum(buf, position, rules)
      [] rule = "Lambda" -> ruleLambda(buf, position, rules)
      [] rule = "LambdaRef" -> ruleLambdaRef(buf, position, rules)
      [] rule = "LambdaExpr" -> ruleLambdaExpr(buf, position, rules)
      [] rule = "Params" -> ruleParams(buf, position, rules)
      [] rule = "StartParams" -> ruleStartParams(buf, position, rules)
      [] rule = "Names" -> ruleNames(buf, position, rules)
      [] rule = "NextName" -> ruleNextName(buf, position, rules)
      [] rule = "Name" -> ruleName(buf, position, rules)
      [] rule = "DefaultValue" -> ruleDefaultValue(buf, position, rules)
      [] rule = "VarParams" -> ruleVarParams(buf, position, rules)
      [] rule = "Reference" -> ruleReference(buf, position, rules)
      [] rule = "TagPrefix" -> ruleTagPrefix(buf, position, rules)
      [] rule = "Tag" -> ruleTag(buf, position, rules)
      [] rule = "TagComponent" -> ruleTagComponent(buf, position, rules)
      [] rule = "FollowUpRef" -> ruleFollowUpRef(buf, position, rules)
      [] rule = "PathComponent" -> rulePathComponent(buf, position, rules)
      [] rule = "Key" -> ruleKey(buf, position, rules)
      [] rule = "Index" -> ruleIndex(buf, position, rules)
      [] rule = "IP" -> ruleIP(buf, position, rules)
      [] rule = "ws" -> rulews(buf, position, rules)
      [] rule = "req_ws" -> rulereq_ws(buf, position, rules)
      [] rule = "Action0" -> ruleAction0(buf, position, rules)
      [] rule = "Action1" -> ruleAction1(buf, position, rules)
      [] rule = "Action2" -> ruleAction2(buf, position, rules)

\* the order in which the results of the rules at one position are set down:
\* a rule comes after the rules it calls before it has consumed a rune
Order ==
    <<{"Marker", "TagMarker", "CreateScope", "OrOp", "LogOr", "LogAnd",
       "CompareOp", "Addition", "Subtraction", "Multiplication", "Division",
       "Modulo", "ChainedDynRef", "TopIndex", "Currying", "StartArguments",
       "ListExpansion", "Substitution", "Not", "Grouped", "StartRange",
       "RangeOp", "Number", "String", "Boolean", "Nil", "Undefined", "Symbol",
       "StartList", "CreateMap", "RefMerge", "SimpleMerge", "Replace",
       "Required", "On", "Auto", "Sync", "LambdaExt", "Catch", "MapMapping",
       "Mapping", "MapSelection", "Selection", "Sum", "Lambda", "Params",
       "Name", "DefaultValue", "VarParams", "TagComponent", "Key", "Index",
       "IP", "ws", "req_ws", "Action0", "Action1", "Action2"},
      {"Prefer", "MarkedExpression", "SubsequentMarker", "MarkerExpression",
       "Scope", "Or", "Concatenation", "Comparison", "ChainedCall",
       "NextNameArgument", "ProjectionValue", "Range", "List", "Map", "Merge",
       "Default", "LambdaRef", "LambdaExpr", "StartParams", "NextName", "Tag",
       "PathComponent"},
      {"Scoped", "ChainedRef", "Slice", "LambdaOrExpr", "Names", "TagPrefix",
       "FollowUpRef"},
      {"Projection", "Reference"},
      {"Chained", "ChainedQualifiedExpression"},
      {"Level0"},
      {"Level1"},
      {"Level2"},
      {"Level3"},
      {"Level4"},
      {"Level5"},
      {"Conditional"},
      {"Level6"},
      {"Level7"},
      {"Expression"},
      {"Dynaml", "NextExpression", "Assignment"},
      {"NameArgumentList", "ExpressionList", "Assignments"}>>

\* the results of the rules at one position, given the results at the
\* positions behind it
RECURSIVE RulesUpTo(_, _, _, _)
RulesUpTo(buf, position, later, n) ==
    IF n = 0 THEN (position :> <<>>) @@ later
    ELSE LET rules == RulesUpTo(buf, position, later, n - 1)
         IN  Put(rules, position, [rule \in Order[n] |-> Run(rule, buf, position, rules)])

RulesAt(buf, position, later) == RulesUpTo(buf, position, later, Len(Order))

\* Init makes the rules array over the buffer; the results of the rules are
\* set down from the end of the buffer to its start, since a rule calls other
\* rules at its own position or behind it
RECURSIVE RulesFrom(_, _)
RulesFrom(buf, position) ==
    LET later == IF position = Len(buf) THEN <<>> ELSE RulesFrom(buf, position + 1)
    IN  IF position \in DOMAIN later THEN later ELSE RulesAt(buf, position, later)

\* the texts parsed: chains of operands and operators, texts made of the
\* words of the merge directive, and texts of quotes and backslashes
MaxOperators == 2

MaxWords == 3

MaxRunes == 4

RECURSIVE Flatten(_)
Flatten(ss) == IF ss = <<>> THEN <<>> ELSE Head(ss) \o Flatten(Tail(ss))

Conditional == <<" ", "?", " ", "x", " ", ":", " ">>

Multiplicative == {<<" ", "*", " ">>, <<" ", "/", " ">>, <<" ", "%", " ">>}

Additive == {<<" ", "+", " ">>, <<" ", "-", " ">>}

Comparing == {<<" ", "=", "=", " ">>, <<" ", "<", " ">>}

Logical == {<<" ", "-", "o", "r", " ">>, <<" ", "-", "a", "n", "d", " ">>}

Concatenating == {<<" ">>}

Disjunctive == {<<" ", "|", "|", " ">>, <<" ", "/", "/", " ">>}

\* the operators by the level of the grammar that takes them
OperatorLevels ==
    <<Multiplicative, Additive, Comparing, Logical, Concatenating, {Conditional}, Disjunctive>>

Operators == UNION {OperatorLevels[n] : n \in DOMAIN OperatorLevels}

Operands == <<"a", "b", "c", "d", "e">>

OperatorChain(ops) ==
    <<Operands[1]>> \o Flatten([i \in 1..Len(ops) |-> ops[i] \o <<Operands[i + 1]>>])

Words ==
    {<<"m", "e", "r", "g", "e">>, <<"(", "a", ")">>, <<" ">>, <<"a">>,
     <<"r", "e", "q", "u", "i", "r", "e", "d">>, <<"o", "n">>,
     <<"r", "e", "p", "l", "a", "c", "e">>}

Runes == {"\"", "\\", "a"}

Buffers ==
    {OperatorChain(ops) : ops \in SeqsOf(Operators, 0, MaxOperators)}
        \cup {Flatten(ws) : ws \in SeqsOf(Words, 1, MaxWords)}
        \cup SeqsOf(Runes, 1, MaxRunes)

ParseInit ==
    /\ parserBuffer \in Buffers
    /\ parserRules = <<>>
    /\ parserpc = "init"

ParseIdle ==
    /\ parserBuffer = <<>>
    /\ parserRules = <<>>
    /\ parserpc = "idle"

\* Init and Parse: the rules array is made and rule Dynaml, the first rule,
\* is run from the start of the buffer; Parse returns an error where it fails
Parse ==
    /\ parserpc = "init"
    /\ parserRules' = RulesFrom(parserBuffer, 0)
    /\ parserpc' = IF Call(parserRules', "Dynaml", 0) < 0 THEN "error" ELSE "parsed"
    /\ UNCHANGED parserBuffer
    /\ UNCHANGED parseOthers

ParseNext == Parse

\* ------------------------------ ResolveExpressionListOrPushEvaluation part
\* the nodes of the list values of the model, and Node.Value()
ListNode(v) == [value |-> v, source |-> "template"]

NodeValue(n) == n.value

\* v.([]yaml.Node): the nodes of a value that is a list
ListNodes(v) ==
    CASE v.v = "l" -> <<ListNode(Value("int", "1")), ListNode(Value("string", "s"))>>
      [] OTHER -> <<>>

IsNodeList(v) == v.type = "list"

\* i.Error(msg): SetError on the info, and (nil, info, false)
InfoError(i, msg) == [i EXCEPT !.LocalError = TRUE, !.Issue = NewIssue(msg)]

\* the first loop of ResolveExpressionListOrPushEvaluation from element i on:
\* every element is resolved or pushed in the copy of the list, the infos are
\* joined from one element to the next, the loop ends at the first failure
RECURSIVE ResolveElements(_, _, _, _)
ResolveElements(st, i, b, locally) ==
    IF i > Len(st.pushed) THEN st
    ELSE LET r == ResolveExpressionOrPushEvaluation(st.pushed[i], st.resolved, st.info,
                                                    b, locally)
             next == [values |-> Append(st.values, r.value),
                      pushed |-> [st.pushed EXCEPT ![i] = r.e],
                      infoe |-> r.info,
                      info |-> InfoPtr(r.info),
                      expand |-> st.expand \/ IsListExpansion(r.e),
                      ok |-> r.ok,
                      resolved |-> r.resolved]
         IN  IF ~r.ok THEN next ELSE ResolveElements(next, i + 1, b, locally)

\* the second loop: the values of the elements marked for expansion are
\* replaced by the values of their nodes; ok is false at a marked element
\* whose value is no list of nodes
RECURSIVE ExpandValues(_, _, _)
ExpandValues(values, pushed, i) ==
    IF i > Len(values) THEN [ok |-> TRUE, vlist |-> <<>>]
    ELSE IF IsListExpansion(pushed[i]) /\ ~IsNodeList(values[i])
    THEN [ok |-> FALSE, vlist |-> <<>>]
    ELSE LET rest == ExpandValues(values, pushed, i + 1)
             here == IF IsListExpansion(pushed[i])
                     THEN [k \in DOMAIN ListNodes(values[i]) |->
                              NodeValue(ListNodes(values[i])[k])]
                     ELSE <<values[i]>>
         IN  [ok |-> rest.ok, vlist |-> IF rest.ok THEN here \o rest.vlist ELSE <<>>]

\* the loops run on the list of the caller itself, without the copy
ResolveListInPlace(list, resolved, info, b, locally) ==
    LET st == ResolveElements([values |-> <<>>, pushed |-> list, infoe |-> DefaultInfo,
                               info |-> info, expand |-> FALSE, ok |-> TRUE,
                               resolved |-> resolved], 1, b, locally)
        expanded == ExpandValues(st.values, st.pushed, 1)
    IN  IF ~st.ok
        THEN [values |-> <<>>, info |-> st.infoe, ok |-> FALSE,
              list |-> st.pushed, resolved |-> st.resolved]
        ELSE IF st.expand /\ ~expanded.ok
        THEN [values |-> <<>>,
              info |-> InfoError(st.infoe, "argument expansion required list argument"),
              ok |-> FALSE, list |-> st.pushed, resolved |-> st.resolved]
        ELSE [values |-> IF st.expand THEN expanded.vlist ELSE st.values,
              info |-> st.infoe, ok |-> TRUE, list |-> st.pushed, resolved |-> st.resolved]

\* ResolveExpressionListOrPushEvaluation: the triple returned (nil values are
\* the empty list), and what is left behind the pointers list and resolved
ResolveExpressionListOrPushEvaluation(list, resolved, info, b, locally) ==
    LET st == ResolveElements([values |-> <<>>, pushed |-> list, infoe |-> DefaultInfo,
                               info |-> info, expand |-> FALSE, ok |-> TRUE,
                               resolved |-> resolved], 1, b, locally)
        expanded == ExpandValues(st.values, st.pushed, 1)
    IN  IF ~st.ok
        THEN [values |-> <<>>, info |-> st.infoe, ok |-> FALSE,
              list |-> list, resolved |-> st.resolved]
        ELSE IF st.expand /\ ~expanded.ok
        THEN [values |-> <<>>,
              info |-> InfoError(st.infoe, "argument expansion required list argument"),
              ok |-> FALSE, list |-> list, resolved |-> st.resolved]
        ELSE [values |-> IF st.expand THEN expanded.vlist ELSE st.values,
              info |-> st.infoe, ok |-> TRUE, list |-> st.pushed, resolved |-> st.resolved]

\* the lists and the bindings of the calls
MaxElements == 2

ListIds == {"x", "y"}

ListExpressions == {Expr(id, expansion) : id \in ListIds, expansion \in BOOLEAN}

\* what the evaluation of an element may return: a resolved value, a list of
\* nodes, a deferred expression, or a failure
ListOutcomes ==
    {[val |-> v, info |-> DefaultInfo, ok |-> TRUE] :
        v \in {Value("int", "5"), Value("list", "l"), Expr("d", FALSE)}}
        \cup {[val |-> NilValue, info |-> ErrorInfo, ok |-> FALSE]}

NoListReturn ==
    [values |-> <<>>, info |-> DefaultInfo, ok |-> FALSE, list |-> <<>>, resolved |-> FALSE]

ListInit ==
    /\ listE \in SeqsOf(ListExpressions, 0, MaxElements)
    /\ listResolved \in BOOLEAN
    /\ listInfo \in {NilInfo, InfoPtr(DefaultInfo)}
    /\ listBinding \in [ListIds -> ListOutcomes]
    /\ listpc = "call"
    /\ listReturn = NoListReturn

ListIdle ==
    /\ listE = <<>>
    /\ listResolved = FALSE
    /\ listInfo = NilInfo
    /\ listBinding = [id \in ListIds |-> [val |-> NilValue, info |-> DefaultInfo, ok |-> FALSE]]
    /\ listpc = "idle"
    /\ listReturn = NoListReturn

\* the call; the caller's list and resolved are what the helper left there
CallResolveList ==
    /\ listpc = "call"
    /\ listReturn' = ResolveExpressionListOrPushEvaluation(listE, listResolved, listInfo,
                                                          listBinding, FALSE)
    /\ listpc' = "done"
    /\ UNCHANGED <<listE, listResolved, listInfo, listBinding>>
    /\ UNCHANGED listOthers

ListNext == CallResolveList

\* ------------------------------------------- src/dynaml/wireguard/key.go
\* KeyLen, the length of a key in bytes
KeyLen == 32

\* Key{}: the zero key
ZeroKey == [i \in 1..KeyLen |-> 0]

\* base64.StdEncoding: the alphabet and the padding
Base64Chars ==
    <<"A", "B", "C", "D", "E", "F", "G", "H", "I", "J", "K", "L", "M",
      "N", "O", "P", "Q", "R", "S", "T", "U", "V", "W", "X", "Y", "Z",
      "a", "b", "c", "d", "e", "f", "g", "h", "i", "j", "k", "l", "m",
      "n", "o", "p", "q", "r", "s", "t", "u", "v", "w", "x", "y", "z",
      "0", "1", "2", "3", "4", "5", "6", "7", "8", "9", "+", "/">>

Padding == "="

\* the character of six bits and the six bits of a character
Base64Char(n) == Base64Chars[n + 1]

Base64Index(c) == (CHOOSE i \in DOMAIN Base64Chars : Base64Chars[i] = c) - 1

IsBase64Char(c) == \E i \in DOMAIN Base64Chars : Base64Chars[i] = c

\* EncodeToString: three bytes give four characters, the one or two bytes
\* left at the end give two or three characters and the padding
RECURSIVE EncodeToString(_)
EncodeToString(bytes) ==
    IF Len(bytes) = 0 THEN <<>>
    ELSE IF Len(bytes) = 1
    THEN <<Base64Char(bytes[1] \div 4), Base64Char((bytes[1] % 4) * 16), Padding, Padding>>
    ELSE IF Len(bytes) = 2
    THEN <<Base64Char(bytes[1] \div 4),
           Base64Char((bytes[1] % 4) * 16 + bytes[2] \div 16),
           Base64Char((bytes[2] % 16) * 4), Padding>>
    ELSE <<Base64Char(bytes[1] \div 4),
           Base64Char((bytes[1] % 4) * 16 + bytes[2] \div 16),
           Base64Char((bytes[2] % 16) * 4 + bytes[3] \div 64),
           Base64Char(bytes[3] % 64)>>
             \o EncodeToString(SubSeq(bytes, 4, Len(bytes)))

\* the bytes of one quantum of four characters, the last one of the text
\* possibly padded; the bits left over in a padded quantum are not looked at
DecodeQuantum(q, last) ==
    IF ~IsBase64Char(q[1]) \/ ~IsBase64Char(q[2])
    THEN [ok |-> FALSE, bytes |-> <<>>]
    ELSE LET b1 == Base64Index(q[1]) * 4 + Base64Index(q[2]) \div 16
         IN  IF last /\ q[3] = Padding /\ q[4] = Padding
             THEN [ok |-> TRUE, bytes |-> <<b1>>]
             ELSE IF ~IsBase64Char(q[3])
             THEN [ok |-> FALSE, bytes |-> <<>>]
             ELSE LET b2 == (Base64Index(q[2]) % 16) * 16 + Base64Index(q[3]) \div 4
                  IN  IF last /\ q[4] = Padding
                      THEN [ok |-> TRUE, bytes |-> <<b1, b2>>]
                      ELSE IF ~IsBase64Char(q[4])
                      THEN [ok |-> FALSE, bytes |-> <<>>]
                      ELSE [ok |-> TRUE,
                            bytes |-> <<b1, b2, (Base64Index(q[3]) % 4) * 64
                                                    + Base64Index(q[4])>>]

RECURSIVE DecodeQuanta(_)
DecodeQuanta(s) ==
    IF Len(s) = 0 THEN [ok |-> TRUE, bytes |-> <<>>]
    ELSE IF Len(s) < 4 THEN [ok |-> FALSE, bytes |-> <<>>]
    ELSE LET here == DecodeQuantum(SubSeq(s, 1, 4), Len(s) = 4)
             rest == DecodeQuanta(SubSeq(s, 5, Len(s)))
         IN  IF here.ok /\ rest.ok
             THEN [ok |-> TRUE, bytes |-> here.bytes \o rest.bytes]
             ELSE [ok |-> FALSE, bytes |-> <<>>]

\* DecodeString: line ends are skipped, the rest is decoded quantum by quantum
DecodeString(s) == DecodeQuanta(SelectSeq(s, LAMBDA c : c \notin {"\n", "\r"}))

\* NewKey without the check of the length: copy fills the key as far as b goes
NewKeyOfAnyLength(b) ==
    [key |-> [i \in 1..KeyLen |-> IF i <= Len(b) THEN b[i] ELSE 0], err |-> FALSE]

\* NewKey: the key of a slice of exactly KeyLen bytes
NewKey(b) ==
    IF Len(b) # KeyLen THEN [key |-> ZeroKey, err |-> TRUE] ELSE [key |-> b, err |-> FALSE]

\* ParseKey
ParseKey(s) ==
    LET decoded == DecodeString(s)
    IN  IF ~decoded.ok THEN [key |-> ZeroKey, err |-> TRUE] ELSE NewKey(decoded.bytes)

\* Key.String
KeyString(k) == EncodeToString(k)

\* math/rand: the default source is a generator whose state decides every
\* byte it will give; Read fills the slice from it and never fails. The
\* program never seeds the source: it starts from the seed the runtime gives
\* it, a fixed one or one drawn at the start of the program
RandNext(seed) == (seed * 75 + 74) % 65537

RECURSIVE RandRead(_, _)
RandRead(seed, n) ==
    IF n = 0 THEN [bytes |-> <<>>, seed |-> seed]
    ELSE LET rest == RandRead(RandNext(seed), n - 1)
         IN  [bytes |-> <<RandNext(seed) % 256>> \o rest.bytes, seed |-> rest.seed]

\* the slices rand.Read may give to a call made in a state of the source
ReadOutcomes(seed, n) == {RandRead(seed, n).bytes}

\* GenerateKey: the key and the state the source is left in
GenerateKey(seed) ==
    LET read == RandRead(seed, KeyLen)
    IN  [key |-> NewKey(read.bytes).key, err |-> NewKey(read.bytes).err, seed |-> read.seed]

\* key[0] &= 248; key[31] &= 127; key[31] |= 64
Clamp(key) ==
    [key EXCEPT ![1] = @ - (@ % 8),
                ![KeyLen] = (@ % 64) + 64]

\* GeneratePrivateKey
GeneratePrivateKey(seed) ==
    LET g == GenerateKey(seed)
    IN  IF g.err THEN [g EXCEPT !.key = ZeroKey] ELSE [g EXCEPT !.key = Clamp(g.key)]

\* the keys, the strings and the sources of the model
MaxPrefix == 2

MaxSeeds == 3

ByteSamples == {0, 63, 128, 255}

Keys ==
    {[i \in 1..KeyLen |-> IF i <= MaxPrefix THEN prefix[i] ELSE fill] :
        prefix \in SeqsOf(ByteSamples, MaxPrefix, MaxPrefix), fill \in ByteSamples}

\* byte strings that are no keys: shorter and longer ones
OtherLengths == {0, 1, 2, 3, KeyLen - 1, KeyLen + 1, KeyLen + 2}

ByteStrings ==
    {[i \in 1..n |-> k[((i - 1) % KeyLen) + 1]] : k \in Keys, n \in OtherLengths}

\* texts that are no base64 text: the padding cut off, a character outside of
\* the alphabet, and a text that goes on behind the padding
Malformed ==
    UNION {{SubSeq(KeyString(k), 1, Len(KeyString(k)) - 1),
            <<"!">> \o Tail(KeyString(k)),
            KeyString(k) \o <<"A">>} : k \in Keys}

\* the text of a key with a line end behind it
WithLineEnd == {KeyString(k) \o <<"\n">> : k \in Keys}

\* the texts of the byte strings that are no keys
OtherTexts == {EncodeToString(b) : b \in ByteStrings}

Strings == OtherTexts \cup Malformed \cup WithLineEnd

NoKeyReturn == [key |-> ZeroKey, err |-> FALSE]

KeyInit ==
    /\ \/ keypc = "key" /\ keyK \in Keys /\ keyS = <<>>
       \/ keypc = "string" /\ keyK = ZeroKey /\ keyS \in Strings
       \/ keypc = "fresh" /\ keyK = ZeroKey /\ keyS = <<>>
    /\ rngSeed \in 1..MaxSeeds
    /\ keyReturn = NoKeyReturn

KeyIdle ==
    /\ keyK = ZeroKey
    /\ keyS = <<>>
    /\ rngSeed = 1
    /\ keypc = "idle"
    /\ keyReturn = NoKeyReturn

CallGenerateKey ==
    /\ keypc = "fresh"
    /\ keyK' = GenerateKey(rngSeed).key
    /\ rngSeed' = GenerateKey(rngSeed).seed
    /\ keypc' = "key"
    /\ UNCHANGED <<keyS, keyReturn>>
    /\ UNCHANGED keyOthers

CallGeneratePrivateKey ==
    /\ keypc = "fresh"
    /\ keyK' = GeneratePrivateKey(rngSeed).key
    /\ rngSeed' = GeneratePrivateKey(rngSeed).seed
    /\ keypc' = "key"
    /\ UNCHANGED <<keyS, keyReturn>>
    /\ UNCHANGED keyOthers

CallString ==
    /\ keypc = "key"
    /\ keyS' = KeyString(keyK)
    /\ keypc' = "encoded"
    /\ UNCHANGED <<keyK, rngSeed, keyReturn>>
    /\ UNCHANGED keyOthers

CallParseKey ==
    /\ keypc \in {"string", "encoded"}
    /\ keyReturn' = ParseKey(keyS)
    /\ keypc' = IF keypc = "encoded" THEN "roundtrip" ELSE "parsed"
    /\ UNCHANGED <<keyK, keyS, rngSeed>>
    /\ UNCHANGED keyOthers

KeyNext == CallGenerateKey \/ CallGeneratePrivateKey \/ CallString \/ CallParseKey

\* --------------------------------------------------------- DynamicExpr part
\* the values of nodes: integers, strings, lists of nodes and maps of nodes
\* (the keys of a map in keys, its entries at the same places in elems)
IntNode(n) == [kind |-> "int", n |-> n, s |-> "", keys |-> <<>>, elems |-> <<>>]

StringNode(s) == [kind |-> "string", n |-> 0, s |-> s, keys |-> <<>>, elems |-> <<>>]

NodeList(elems) == [kind |-> "list", n |-> 0, s |-> "", keys |-> <<>>, elems |-> elems]

NodeMap(keys, elems) == [kind |-> "map", n |-> 0, s |-> "", keys |-> keys, elems |-> elems]

\* the index expressions: IntegerExpr{n}, StringExpr{s}, ListExpr{contents}
IntegerExpr(n) == [expr |-> "integer", n |-> n, s |-> "", contents |-> <<>>]

StringExpr(s) == [expr |-> "string", n |-> 0, s |-> s, contents |-> <<>>]

ListExpr(contents) == [expr |-> "list", n |-> 0, s |-> "", contents |-> contents]

\* StringExpr.Evaluate returns the string, IntegerExpr.Evaluate the integer,
\* ListExpr.Evaluate the list of the values of its contents
EvaluateIndex(e) ==
    CASE e.expr = "integer" -> IntNode(e.n)
      [] e.expr = "string" -> StringNode(e.s)
      [] OTHER -> NodeList([i \in DOMAIN e.contents |->
                     IF e.contents[i].expr = "integer"
                     THEN IntNode(e.contents[i].n) ELSE StringNode(e.contents[i].s)])

\* what an evaluation returns: the value and ok
Yields(v) == [value |-> v, ok |-> TRUE]

Fails == [value |-> IntNode(0), ok |-> FALSE]

\* one step into a node: an integer selects the element of a list at that
\* position, counted from 0, a string the entry of a map under that key
Select(node, index) ==
    IF index.kind = "int"
    THEN IF node.kind = "list" /\ index.n >= 0 /\ index.n < Len(node.elems)
         THEN Yields(node.elems[index.n + 1]) ELSE Fails
    ELSE IF node.kind = "map" /\ \E k \in DOMAIN node.keys : node.keys[k] = index.s
         THEN Yields(node.elems[CHOOSE k \in DOMAIN node.keys : node.keys[k] = index.s])
         ELSE Fails

\* the steps of a path taken from the last one to the first one
RECURSIVE FindFromEnd(_, _)
FindFromEnd(node, path) ==
    IF Len(path) = 0 THEN Yields(node)
    ELSE LET here == Select(node, path[Len(path)])
         IN  IF here.ok THEN FindFromEnd(here.value, SubSeq(path, 1, Len(path) - 1)) ELSE Fails

\* the steps of a path taken one after the other
RECURSIVE FindPath(_, _)
FindPath(node, path) ==
    IF Len(path) = 0 THEN Yields(node)
    ELSE LET here == Select(node, Head(path))
         IN  IF here.ok THEN FindPath(here.value, Tail(path)) ELSE Fails

\* DynamicExpr{ref, idx}.Evaluate on the node ref resolves to: the value of
\* the index gives the path, one step for an integer or a string, one step
\* for every element of a list
DynamicEvaluate(root, idx) ==
    LET dyn == EvaluateIndex(idx)
    IN  IF dyn.kind = "list" THEN FindPath(root, dyn.elems) ELSE FindPath(root, <<dyn>>)

\* the nodes and the index expressions of the model
MaxIndex == 1

DynKeys == {"bar", "foo"}

DynElements ==
    {IntNode(1), IntNode(42), NodeList(<<IntNode(1), IntNode(42)>>),
     NodeMap(<<"bar">>, <<IntNode(42)>>)}

DynLists == {NodeList(elems) : elems \in SeqsOf(DynElements, 0, MaxIndex + 1)}

DynMaps ==
    {NodeMap(<<"bar">>, <<v>>) : v \in DynElements}
        \cup {NodeMap(<<"foo", "bar">>, <<v, w>>) : v \in DynElements, w \in DynElements}

DynRoots == DynLists \cup DynMaps \cup {IntNode(42)}

AtomIndices ==
    {IntegerExpr(n) : n \in 0..(MaxIndex + 1)} \cup {StringExpr(s) : s \in DynKeys \cup {"baz"}}

DynIndices == AtomIndices \cup {ListExpr(c) : c \in SeqsOf(AtomIndices, 1, 2)}

DynInit ==
    /\ dynRoot \in DynRoots
    /\ dynIndex \in DynIndices
    /\ dynpc = "evaluate"
    /\ dynReturn = Fails

DynIdle ==
    /\ dynRoot = IntNode(0)
    /\ dynIndex = IntegerExpr(0)
    /\ dynpc = "idle"
    /\ dynReturn = Fails

CallDynamicEvaluate ==
    /\ dynpc = "evaluate"
    /\ dynReturn' = DynamicEvaluate(dynRoot, dynIndex)
    /\ dynpc' = "done"
    /\ UNCHANGED <<dynRoot, dynIndex>>
    /\ UNCHANGED dynOthers

DynNext == CallDynamicEvaluate

\* ------------------------------------------------------- chains of Joins
MaxJoins == 2

\* the operands: the default info and infos with one flag, one node flag, an
\* issue, a key name, a redirect path or cleanups set, and one with all flags
JoinSamples ==
    {DefaultInfo,
     [DefaultInfo EXCEPT !.LocalError = TRUE],
     [DefaultInfo EXCEPT !.Failed = TRUE],
     [DefaultInfo EXCEPT !.Undefined = TRUE],
     [DefaultInfo EXCEPT !.Merged = TRUE],
     [DefaultInfo EXCEPT !.Preferred = TRUE],
     [DefaultInfo EXCEPT !.Replace = TRUE],
     [DefaultInfo EXCEPT !.Raw = TRUE],
     [DefaultInfo EXCEPT !.NodeFlags = {"temporary"}],
     [DefaultInfo EXCEPT !.NodeFlags = {"local"}, !.KeyName = "name"],
     [DefaultInfo EXCEPT !.Issue = NewIssue("a"), !.LocalError = TRUE],
     [DefaultInfo EXCEPT !.Issue = NewIssue("b"), !.RedirectPath = <<"p">>],
     [DefaultInfo EXCEPT !.LocalError = TRUE, !.Failed = TRUE, !.Undefined = TRUE,
                         !.Merged = TRUE, !.Preferred = TRUE, !.Replace = TRUE,
                         !.NodeFlags = {"temporary", "local"}, !.Cleanups = <<"c1">>]}

JoinInit ==
    /\ joinInfo \in JoinSamples
    /\ joinOperands = <<joinInfo>>
    /\ joinpc = "join"

JoinIdle ==
    /\ joinInfo = DefaultInfo
    /\ joinOperands = <<>>
    /\ joinpc = "idle"

\* i = i.Join(o)
CallJoin ==
    \E o \in JoinSamples :
        /\ joinpc = "join"
        /\ Len(joinOperands) <= MaxJoins
        /\ joinInfo' = Join(joinInfo, o)
        /\ joinOperands' = Append(joinOperands, o)
        /\ UNCHANGED joinpc
        /\ UNCHANGED joinOthers

JoinNext == CallJoin

\* ------------------------------------------------------------ CheckTagName
\* the error values: nil and the three messages
NilError == "nil"

\* the loop of CheckTagName over the runes from k on, l runes of the
\* component at hand seen so far
RECURSIVE CheckRunes(_, _, _)
CheckRunes(name, k, l) ==
    IF k > Len(name) THEN NilError
    ELSE IF name[k] = ":"
    THEN IF l = 0 THEN "empty tag component not allowed" ELSE CheckRunes(name, k + 1, 0)
    ELSE IF name[k] \in Digit
    THEN IF l + 1 = 1 THEN "tag component must start with alnum rune"
         ELSE CheckRunes(name, k + 1, l + 1)
    ELSE IF name[k] \in Lower \/ name[k] \in Upper
    THEN CheckRunes(name, k + 1, l + 1)
    ELSE "invalid character in tag component"

CheckTagName(name) == CheckRunes(name, 1, 0)

\* the names of the model
MaxName == 4

NameRunes == {"a", "Z", "0", ":", "_"}

TagNames == SeqsOf(NameRunes, 0, MaxName)

CheckInit ==
    /\ checkName \in TagNames
    /\ checkpc = "call"
    /\ checkErr = NilError

CheckIdle ==
    /\ checkName = <<>>
    /\ checkpc = "idle"
    /\ checkErr = NilError

CallCheckTagName ==
    /\ checkpc = "call"
    /\ checkErr' = CheckTagName(checkName)
    /\ checkpc' = "done"
    /\ UNCHANGED checkName
    /\ UNCHANGED checkOthers

CheckNext == CallCheckTagName

\* ---------------------------------------------------------------- addValue
\* map[string]yaml.Node: a function from keys (strings of runes) to nodes; a
\* node holds a scalar or a map
NoMap == <<>>

ScalarNode(v) == [kind |-> "scalar", v |-> v, map |-> NoMap]

MapNode(m) == [kind |-> "map", v |-> 0, map |-> m]

\* m[c] = node
PutEntry(m, c, node) == [k \in DOMAIN m \cup {c} |-> IF k = c THEN node ELSE m[k]]

\* strings.Split(name, ".")
RECURSIVE Split(_)
Split(name) ==
    IF \A k \in DOMAIN name : name[k] # "." THEN <<name>>
    ELSE LET dot == CHOOSE k \in DOMAIN name :
                        name[k] = "." /\ \A j \in 1..(k - 1) : name[j] # "."
         IN  <<SubSeq(name, 1, dot - 1)>> \o Split(SubSeq(name, dot + 1, Len(name)))

\* the number of backslashes a component ends with
RECURSIVE Mask(_)
Mask(comp) ==
    IF Len(comp) > 0 /\ comp[Len(comp)] = "\\" THEN 1 + Mask(SubSeq(comp, 1, Len(comp) - 1))
    ELSE 0

\* the first loop of addValue from component i on (counted from 1): an empty
\* component that is not the last one is an error; two backslashes at the end
\* of a component stand for one, a single one joins the component with the
\* next one, and the joined component is looked at again
RECURSIVE Unmask(_, _)
Unmask(comps, i) ==
    IF i > Len(comps) - 1 THEN [err |-> FALSE, comps |-> comps]
    ELSE IF comps[i] = <<>> THEN [err |-> TRUE, comps |-> comps]
    ELSE LET mask == Mask(comps[i])
             stem == SubSeq(comps[i], 1, Len(comps[i]) - mask)
                         \o [k \in 1..(mask \div 2) |-> "\\"]
         IN  IF mask % 2 = 1
             THEN Unmask(SubSeq(comps, 1, i - 1) \o <<stem \o <<".">> \o comps[i + 1]>>
                             \o SubSeq(comps, i + 2, Len(comps)), i)
             ELSE Unmask([comps EXCEPT ![i] = stem], i + 1)

\* a second loop that makes a map of a field that is none before it fails
RECURSIVE StoreOverField(_, _, _)
StoreOverField(m, comps, value) ==
    IF Len(comps) = 1 THEN [err |-> FALSE, m |-> PutEntry(m, comps[1], value)]
    ELSE LET c == comps[1]
         IN  IF c \notin DOMAIN m
             THEN LET r == StoreOverField(NoMap, Tail(comps), value)
                  IN  [err |-> r.err, m |-> PutEntry(m, c, MapNode(r.m))]
             ELSE IF m[c].kind # "map"
             THEN [err |-> TRUE, m |-> PutEntry(m, c, MapNode(NoMap))]
             ELSE LET r == StoreOverField(m[c].map, Tail(comps), value)
                  IN  [err |-> r.err, m |-> PutEntry(m, c, MapNode(r.m))]

\* the second loop of addValue and the assignment behind it: a missing field
\* is set to a new map in place, a field that is a map is entered, a field
\* that is no map is the error; the maps are changed in place, so the map
\* returned is what the caller's map holds after the call, error or not
RECURSIVE Store(_, _, _)
Store(m, comps, value) ==
    IF Len(comps) = 1 THEN [err |-> FALSE, m |-> PutEntry(m, comps[1], value)]
    ELSE LET c == comps[1]
         IN  IF c \notin DOMAIN m
             THEN LET r == Store(NoMap, Tail(comps), value)
                  IN  [err |-> r.err, m |-> PutEntry(m, c, MapNode(r.m))]
             ELSE IF m[c].kind # "map"
             THEN [err |-> TRUE, m |-> m]
             ELSE LET r == Store(m[c].map, Tail(comps), value)
                  IN  [err |-> r.err, m |-> PutEntry(m, c, MapNode(r.m))]

\* addValue(m, name, value): the error and the map after the call
addValue(m, name, value) ==
    LET comps == Unmask(Split(name), 1)
    IN  IF comps.err THEN [err |-> TRUE, m |-> m] ELSE Store(m, comps.comps, value)

\* the names and the maps of the model
MaxPath == 4

PathRunes == {"a", "b", ".", "\\"}

ValueNames == SeqsOf(PathRunes, 0, MaxPath)

Entries(a, b) == PutEntry(PutEntry(NoMap, <<"a">>, a), <<"b">>, b)

ValueMaps ==
    {NoMap,
     PutEntry(NoMap, <<"a">>, ScalarNode(1)),
     PutEntry(NoMap, <<"a">>, MapNode(NoMap)),
     Entries(MapNode(PutEntry(NoMap, <<"b">>, ScalarNode(2))), ScalarNode(3)),
     PutEntry(NoMap, <<"a">>, MapNode(Entries(MapNode(NoMap), ScalarNode(2)))),
     Entries(MapNode(Entries(ScalarNode(1), MapNode(Entries(ScalarNode(4), ScalarNode(5))))),
             ScalarNode(3)),
     PutEntry(NoMap, <<"a", ".", "b">>, MapNode(PutEntry(NoMap, <<"a">>, ScalarNode(6))))}

NoValReturn == [err |-> FALSE, m |-> NoMap]

ValInit ==
    /\ valM \in ValueMaps
    /\ valName \in ValueNames
    /\ valValue \in {ScalarNode(7)}
    /\ valpc = "call"
    /\ valReturn = NoValReturn

ValIdle ==
    /\ valM = NoMap
    /\ valName = <<>>
    /\ valValue = ScalarNode(0)
    /\ valpc = "idle"
    /\ valReturn = NoValReturn

CallAddValue ==
    /\ valpc = "call"
    /\ valReturn' = addValue(valM, valName, valValue)
    /\ valpc' = "done"
    /\ UNCHANGED <<valM, valName, valValue>>
    /\ UNCHANGED valOthers

ValNext == CallAddValue

\* ----------------------------------------------------------- specifications
\* the flow driver
InitFlow == FlowInit /\ RefIdle /\ ResIdle /\ InfoIdle /\ CtxIdle /\ MergeIdle /\ ParseIdle /\ ListIdle /\ KeyIdle /\ DynIdle /\ JoinIdle /\ CheckIdle /\ ValIdle

SpecFlow == InitFlow /\ [][FlowNext]_vars

\* a reference lookup
InitRef == RefInit /\ FlowIdle /\ ResIdle /\ InfoIdle /\ CtxIdle /\ MergeIdle /\ ParseIdle /\ ListIdle /\ KeyIdle /\ DynIdle /\ JoinIdle /\ CheckIdle /\ ValIdle

SpecRef == InitRef /\ [][RefNext]_vars

\* a call of ResolveExpressionOrPushEvaluation
InitResolve == ResInit /\ FlowIdle /\ RefIdle /\ InfoIdle /\ CtxIdle /\ MergeIdle /\ ParseIdle /\ ListIdle /\ KeyIdle /\ DynIdle /\ JoinIdle /\ CheckIdle /\ ValIdle

SpecResolve == InitResolve /\ [][ResNext]_vars

\* a call of ResolveIntegerExpressionOrPushEvaluation
SpecInteger == InitResolve /\ [][IntegerNext]_vars

\* infos, Join and Cleanup
InitInfo == InfoInit /\ FlowIdle /\ RefIdle /\ ResIdle /\ CtxIdle /\ MergeIdle /\ ParseIdle /\ ListIdle /\ KeyIdle /\ DynIdle /\ JoinIdle /\ CheckIdle /\ ValIdle

SpecInfo == InitInfo /\ [][InfoNext]_vars

\* the contexts of package spiffing
InitCtx == CtxInit /\ FlowIdle /\ RefIdle /\ ResIdle /\ InfoIdle /\ MergeIdle /\ ParseIdle /\ ListIdle /\ KeyIdle /\ DynIdle /\ JoinIdle /\ CheckIdle /\ ValIdle

SpecCtx == InitCtx /\ [][CtxNext]_vars

\* a run of the merge command
InitMerge == MergeInit /\ FlowIdle /\ RefIdle /\ ResIdle /\ InfoIdle /\ CtxIdle /\ ParseIdle /\ ListIdle /\ KeyIdle /\ DynIdle /\ JoinIdle /\ CheckIdle /\ ValIdle

SpecMerge == InitMerge /\ [][MergeNext]_vars

\* a run of the parser
InitParse == ParseInit /\ FlowIdle /\ RefIdle /\ ResIdle /\ InfoIdle /\ CtxIdle /\ MergeIdle /\ ListIdle /\ KeyIdle /\ DynIdle /\ JoinIdle /\ CheckIdle /\ ValIdle

SpecParse == InitParse /\ [][ParseNext]_vars

\* a call of ResolveExpressionListOrPushEvaluation
InitList == ListInit /\ FlowIdle /\ RefIdle /\ ResIdle /\ InfoIdle /\ CtxIdle /\ MergeIdle /\ ParseIdle /\ KeyIdle /\ DynIdle /\ JoinIdle /\ CheckIdle /\ ValIdle

SpecList == InitList /\ [][ListNext]_vars

\* the keys of package wireguard
InitKey == KeyInit /\ FlowIdle /\ RefIdle /\ ResIdle /\ InfoIdle /\ CtxIdle /\ MergeIdle /\ ParseIdle /\ ListIdle /\ DynIdle /\ JoinIdle /\ CheckIdle /\ ValIdle

SpecKey == InitKey /\ [][KeyNext]_vars

\* the evaluation of a dynamic index
InitDyn == DynInit /\ FlowIdle /\ RefIdle /\ ResIdle /\ InfoIdle /\ CtxIdle /\ MergeIdle /\ ParseIdle /\ ListIdle /\ KeyIdle /\ JoinIdle /\ CheckIdle /\ ValIdle

SpecDyn == InitDyn /\ [][DynNext]_vars

\* chains of Joins
InitJoin == JoinInit /\ FlowIdle /\ RefIdle /\ ResIdle /\ InfoIdle /\ CtxIdle /\ MergeIdle /\ ParseIdle /\ ListIdle /\ KeyIdle /\ DynIdle /\ CheckIdle /\ ValIdle

SpecJoin == InitJoin /\ [][JoinNext]_vars

\* a call of CheckTagName
InitCheck == CheckInit /\ FlowIdle /\ RefIdle /\ ResIdle /\ InfoIdle /\ CtxIdle /\ MergeIdle /\ ParseIdle /\ ListIdle /\ KeyIdle /\ DynIdle /\ JoinIdle /\ ValIdle

SpecCheck == InitCheck /\ [][CheckNext]_vars

\* a call of addValue
InitVal == ValInit /\ FlowIdle /\ RefIdle /\ ResIdle /\ InfoIdle /\ CtxIdle /\ MergeIdle /\ ParseIdle /\ ListIdle /\ KeyIdle /\ DynIdle /\ JoinIdle /\ CheckIdle

SpecVal == InitVal /\ [][ValNext]_vars

\* ------------------------------------------------------- claims on the driver
\* the unresolved nodes Apply starts with
InitialUnresolved == UnresolvedCount(Merge(template, prepared_stubs))

\* C1: the pass loop of Apply terminates: a pass is followed by another one
\* only when the count of unresolved nodes is not 0 and, from the second pass
\* on, strictly smaller than the count before; the loop has returned when the
\* last count is 0 or did not decrease; the number of passes is at most the
\* initial number of unresolved nodes plus one.
C1_PassLoopBounded ==
    /\ Len(counts) <= InitialUnresolved + 1
    /\ \A k \in 1..Len(counts) - 1 :
          /\ counts[k] > 0
          /\ k > 1 => counts[k] < counts[k - 1]
    /\ flowpc \in {"pass", "done", "failed"} /\ counts # <<>> =>
          LET k == Len(counts)
              stop == counts[k] = 0 \/ (k > 1 /\ counts[k] >= counts[k - 1])
          IN  stop <=> flowpc \in {"done", "failed"}

\* C1 witness: a run that resolved one node in every pass
C1_Witness == flowpc = "done" /\ Len(counts) = MaxNodes /\ InitialUnresolved = MaxNodes

\* a node of the tree is resolved
ResolvedKeys(doc) == {doc.nodes[i].key : i \in DOMAIN doc.nodes \ UnresolvedNodes(doc)}

\* C2: resolution is monotonic across passes: a node that is resolved stays a
\* resolved node of the tree in every later step of the run.
C2_ResolutionMonotonic ==
    [][flowpc # "start" => ResolvedKeys(tree) \subseteq ResolvedKeys(tree')]_vars

\* C2 witness: a second pass has run on a tree in which the first pass had
\* resolved an expression of the template
C2_Witness ==
    /\ Len(counts) >= 2
    /\ \E i \in DOMAIN template.nodes :
          /\ template.nodes[i].kind = "expr"
          /\ i \in ResolvedKeys(tree)
    /\ counts[1] < InitialUnresolved

\* two nodes of the template refer to each other and no local scope defines
\* either name
MutualReference(i, j) ==
    /\ i # j
    /\ template.nodes[i].kind = "expr" /\ template.nodes[i].ref = j
    /\ template.nodes[j].kind = "expr" /\ template.nodes[j].ref = i
    /\ ~FindInScopes(binding, i).found
    /\ ~FindInScopes(binding, j).found

\* C3: two nodes that refer to each other end the run in the no-progress
\* state, both reported with class "@", neither resolved.
C3_CycleReported ==
    \A i, j \in DOMAIN template.nodes :
        MutualReference(i, j) =>
            /\ flowpc # "done"
            /\ i \notin ResolvedKeys(tree)
            /\ flowpc = "failed" =>
                  /\ [key |-> i, class |-> "@"] \in applied.issues
                  /\ [key |-> j, class |-> "@"] \in applied.issues
                  /\ \A x \in applied.issues : x.key \in {i, j} => x.class = "@"

C3_Witness ==
    /\ flowpc = "failed"
    /\ \E i, j \in DOMAIN template.nodes : MutualReference(i, j)

\* apply(T, [], {}) has returned for a fully resolved tree T
AppliedResolved ==
    /\ flowpc \in {"done", "failed"}
    /\ IsResolved(template)
    /\ prepared_stubs = <<>>
    /\ options = DefaultOptions

\* C9 as stated: for any fully resolved tree T, apply(T, [], {}) returns a
\* tree structurally equal to T.
C9_IdempotentAsStated == AppliedResolved => applied.tree = template

HasEscape(doc) == \E i \in DOMAIN doc.nodes : Unescape(doc.nodes[i].val) # doc.nodes[i].val

\* C9 amended: for any fully resolved tree T without a node flagged
\* Temporary and without an escaped expression, apply(T, [], {}) returns a
\* tree structurally equal to T: the same values, the same mapping entries in
\* the same order, and no error.
C9_IdempotentPlainTree ==
    AppliedResolved /\ ~HasTemporary(template) /\ ~HasEscape(template) =>
        /\ applied.tree = template
        /\ ~applied.err

C9_Witness ==
    /\ AppliedResolved
    /\ ~HasTemporary(template)
    /\ ~HasEscape(template)
    /\ Len(template.nodes) = MaxNodes
    /\ binding.scopes # <<>>

\* ------------------------------------------------------ claims on the lookup
\* the places of a binding that define the name
DefiningScopes == {i \in DOMAIN refBinding.scopes : refName \in DOMAIN refBinding.scopes[i]}

RootDefines == \E i \in DOMAIN refBinding.root.nodes : refBinding.root.nodes[i].key = refName

DefiningStubs ==
    {i \in DOMAIN refBinding.stubs :
        \E k \in DOMAIN refBinding.stubs[i].nodes : refBinding.stubs[i].nodes[k].key = refName}

\* C8: a plain reference is searched in the local scopes from the innermost
\* outward, then in the document root, then in the stubs in the order
\* supplied; the first place that defines the name wins.
C8_LookupOrder ==
    refpc = "done" =>
        /\ refResult.found <=> (DefiningScopes # {} \/ RootDefines \/ DefiningStubs # {})
        /\ DefiningScopes # {} =>
              /\ refResult.where = "scope"
              /\ refResult.at = SetMax(DefiningScopes)
              /\ refResult.node = refBinding.scopes[SetMax(DefiningScopes)][refName]
        /\ DefiningScopes = {} /\ RootDefines =>
              /\ refResult.where = "root"
              /\ refResult.node \in {refBinding.root.nodes[i] : i \in DOMAIN refBinding.root.nodes}
        /\ DefiningScopes = {} /\ ~RootDefines /\ DefiningStubs # {} =>
              /\ refResult.where = "stub"
              /\ refResult.at = SetMin(DefiningStubs)

\* C8 witness: the name is defined by two scopes, the root and two stubs, and
\* the lookup has answered
C8_Witness ==
    /\ refpc = "done"
    /\ Cardinality(DefiningScopes) = 2
    /\ RootDefines
    /\ Cardinality(DefiningStubs) = 2
    /\ refResult.where = "scope"

\* ---------------------------------------------- claims on the resolve helper
\* what Evaluate returned to the call
Evaluated == EvaluateExpr(argE, argBinding, argLocally)

\* C6: a deferred sub-expression is not a failure: when the expression
\* evaluates with ok=true to an Expression the helper returns (nil, info, true),
\* sets *resolved to false and puts the deferred expression behind e; it
\* returns ok=false only when the evaluation returned ok=false, and it never
\* sets *resolved to true.
C6_DeferredIsNoFailure ==
    respc = "done" =>
        /\ Evaluated.ok /\ IsExpression(Evaluated.val) =>
              /\ resReturn.value = NilValue
              /\ resReturn.ok
              /\ resReturn.info = IF argInfo.isnil THEN Evaluated.info
                                  ELSE Join(argInfo.info, Evaluated.info)
              /\ resReturn.resolved = FALSE
              /\ resReturn.e.v = Evaluated.val.v
              /\ IsExpression(resReturn.e)
        /\ ~resReturn.ok <=> ~Evaluated.ok
        /\ resReturn.resolved => argResolved

\* C6 witness: a deferred expression met a call whose resolved flag was set
C6_Witness ==
    /\ respc = "done"
    /\ Evaluated.ok /\ IsExpression(Evaluated.val)
    /\ argResolved
    /\ ~resReturn.resolved
    /\ resReturn.ok

\* ------------------------------------------------------- claims on cleanups
\* no info carries a cleanup any more
AllCleaned == \A i \in DOMAIN infos : infos[i].Cleanups.len = 0

\* C7 as stated: every registered cleanup is invoked exactly once, for any
\* sequence of Join and Cleanup calls: never a second time through another
\* info, and not skipped once the infos are cleaned up.
C7_InvokedExactlyOnce ==
    \A c \in Registered :
        /\ invoked[c] <= 1
        /\ AllCleaned => invoked[c] = 1

\* C7 amended: Cleanup() on an info invokes every entry of the list of that
\* info once and empties the list of that info and of no other; Join copies
\* the cleanups into its result and leaves them with the infos joined, so a
\* cleanup is invoked once for every info carrying it that is cleaned up.
C7_CleanupInvokesOwnList ==
    [][/\ invoked' # invoked =>
             \E i \in DOMAIN infos :
                 /\ \A c \in Cleanups :
                       invoked'[c] = invoked[c] + Occurrences(Contents(arrays, infos[i].Cleanups), c)
                 /\ infos' = [infos EXCEPT ![i].Cleanups = NilSlice]
       /\ Len(infos') > Len(infos) =>
             /\ invoked' = invoked
             /\ \A i \in DOMAIN infos : infos'[i] = infos[i]]_vars

\* C7 witness: the result of a Join has been cleaned up while an info joined
\* into it still carries a cleanup that was invoked
C7_Witness ==
    /\ Len(infos) = MaxInfos
    /\ infos[MaxInfos].Cleanups = NilSlice
    /\ \A c \in Cleanups : invoked[c] = 1
    /\ \E c \in Cleanups : \E o \in DOMAIN infos :
          Occurrences(Contents(arrays, infos[o].Cleanups), c) = 1

TemporaryKeys(i) ==
    {templateYAMLs[i].nodes[k].key :
        k \in {j \in DOMAIN templateYAMLs[i].nodes : templateYAMLs[i].nodes[j].temp}}

\* the keys printed for document i of the template
PrintedKeys(i) ==
    IF flowedLog[i].out = 0 THEN {}
    ELSE {stdout[flowedLog[i].out].bytes.entries[k].key :
             k \in DOMAIN stdout[flowedLog[i].out].bytes.entries}

\* C4: in a run that ends with the output, a node flagged Temporary is not in
\* the output and a document flagged Temporary is not among the documents
\* printed, unless preserve_temporary is set; with preserve_temporary set the
\* document is printed, and the node with it.
C4_TemporaryAbsentUnlessPreserved ==
    mergepc = "done" =>
        \A i \in DOMAIN templateYAMLs :
            ~templateYAMLs[i].isnil =>
                IF processingOptions.preserveTemporary
                THEN /\ flowedLog[i].out # 0
                     /\ TemporaryKeys(i) \subseteq PrintedKeys(i)
                ELSE /\ templateYAMLs[i].temp => flowedLog[i].out = 0
                     /\ TemporaryKeys(i) \cap PrintedKeys(i) = {}

\* C4 witness: a run without preserve_temporary has left out a document
\* flagged Temporary and printed another one without its Temporary node
C4_Witness ==
    /\ mergepc = "done"
    /\ ~processingOptions.preserveTemporary
    /\ \E i \in DOMAIN templateYAMLs :
          templateYAMLs[i].temp /\ ~templateYAMLs[i].isnil /\ flowedLog[i].out = 0
    /\ \E i \in DOMAIN templateYAMLs :
          flowedLog[i].out # 0 /\ TemporaryKeys(i) # {}

\* an error of the stub preparation or of an Apply has come up
ErrorSeen ==
    \/ mergepc \notin {"prepare", "preparing"} /\ prepareErr
    \/ \E i \in DOMAIN flowedLog : flowedLog[i].err

\* document i is printed as the partial tree, the unresolved nodes as the
\* expressions they hold
PrintedWithPlaceholders(i) ==
    /\ flowedLog[i].out # 0
    /\ stdout[flowedLog[i].out].bytes = Marshal(flowedLog[i].flowed)
    /\ \A k \in UnresolvedNodes(flowedLog[i].flowed) :
          \E e \in DOMAIN stdout[flowedLog[i].out].bytes.entries :
              /\ stdout[flowedLog[i].out].bytes.entries[e].key = flowedLog[i].flowed.nodes[k].key
              /\ stdout[flowedLog[i].out].bytes.entries[e].expression = <<flowedLog[i].flowed.nodes[k].ref>>

\* C5 as stated: without partial an error ends the run and nothing is
\* printed; with partial the run goes on and every partial tree is printed.
C5_AbortOrEmitEveryPartialTree ==
    /\ (~processingOptions.partial /\ ErrorSeen) => (mergepc = "fatal" /\ stdout = <<>>)
    /\ processingOptions.partial => mergepc # "fatal"
    /\ (processingOptions.partial /\ mergepc = "done") =>
          \A i \in DOMAIN flowedLog : flowedLog[i].err => PrintedWithPlaceholders(i)

\* C5 amended: without partial, an error of the stub preparation or of Apply
\* ends the run and no document is printed; with partial the run goes on
\* after such an error and the partial tree is printed with its unresolved
\* nodes as placeholders, unless the document is flagged Temporary and
\* preserve_temporary is not set: then it is left out like any other
\* Temporary document.
C5_AbortOrEmitPartialTree ==
    /\ (~processingOptions.partial /\ ErrorSeen) => (mergepc = "fatal" /\ stdout = <<>>)
    /\ processingOptions.partial => mergepc # "fatal"
    /\ (processingOptions.partial /\ mergepc = "done") =>
          \A i \in DOMAIN flowedLog :
              flowedLog[i].err =>
                  IF flowedLog[i].flowed.temp /\ ~processingOptions.preserveTemporary
                  THEN flowedLog[i].out = 0
                  ELSE PrintedWithPlaceholders(i)

\* C5 witness: a partial run has printed a tree with an unresolved node after
\* the stub preparation and the Apply both returned an error
C5_Witness ==
    /\ mergepc = "done"
    /\ processingOptions.partial
    /\ prepareErr
    /\ \E i \in DOMAIN flowedLog :
          /\ flowedLog[i].err
          /\ flowedLog[i].out # 0
          /\ UnresolvedNodes(flowedLog[i].flowed) # {}

\* a step is a call of op
IsCall(op) == calls' # calls /\ lastCall'.op = op

\* C11: Cascade runs with a binding that did not exist before, whose State
\* and local scope are those of the configuration of the context at the call;
\* when it has returned, neither the context nor any other context holds that
\* binding, and a later ApplyStubs, PrepareStubs or Cascade runs only with a
\* binding some context holds or with a new one, so never with the binding of
\* the Cascade.
C11_CascadeSelfContained ==
    [][/\ IsCall("Cascade") =>
             LET c == lastCall'.ctx
                 b == lastCall'.used
             IN  /\ b \notin DOMAIN bindings
                 /\ b \in DOMAIN bindings'
                 /\ bindings'[b].state.key = contexts[c].key
                 /\ bindings'[b].state.mode = contexts[c].mode
                 /\ bindings'[b].state.fs = contexts[c].fs
                 /\ bindings'[b].state.functions = contexts[c].functions
                 /\ bindings'[b].state.interpolation = contexts[c].interpolation
                 /\ bindings'[b].state.tags =
                        (IF contexts[c].tags = 0 THEN {} ELSE tagmaps[contexts[c].tags])
                 /\ bindings'[b].scope = contexts[c].values
                 /\ \A x \in DOMAIN contexts' : contexts'[x].binding # b
       /\ (IsCall("ApplyStubs") \/ IsCall("PrepareStubs") \/ IsCall("Cascade")) =>
             (lastCall'.used \in DOMAIN bindings =>
                 \E x \in DOMAIN contexts : contexts[x].binding = lastCall'.used)]_vars

\* C11 witness: an ApplyStubs after a Cascade that gathered a global tag has
\* run with a binding that holds none
C11_Witness ==
    /\ lastCall.op = "ApplyStubs"
    /\ bindings[lastCall.used].global = {}
    /\ contexts[lastCall.ctx].tags = 0
    /\ \E b \in DOMAIN bindings :
          ~bindings[b].prepared /\ bindings[b].global # {} /\ b < lastCall.used

\* C12: in every context a filesystem that is not nil goes with a mode whose
\* MODE_OS_ACCESS bit is cleared.
C12_FileSystemDisablesOsAccess ==
    \A c \in DOMAIN contexts :
        contexts[c].fs # "nil" => MODE_OS_ACCESS \notin contexts[c].mode

\* C12 witness: WithMode was called on a context that WithFileSystem had
\* given a filesystem
C12_Witness ==
    /\ lastCall.op = "WithMode"
    /\ contexts[lastCall.ctx].fs # "nil"
    /\ contexts[Len(contexts)].fs # "nil"
    /\ contexts[Len(contexts)].mode = {MODE_FILE_ACCESS}
    /\ contexts[1].mode = MODE_DEFAULT

\* C13 as stated: SetTag on any context, one fresh from New() included,
\* returns a new context without failing, and the State built for the next
\* processing of that context holds the tag under its name with its node.
C13_SetTagNeverFails ==
    [][IsCall("SetTag") =>
          /\ ctxpc' = "run"
          /\ Len(contexts') = Len(contexts) + 1
          /\ <<"t", "a">> \in NewState(contexts'[Len(contexts')], tagmaps').tags]_vars

\* --------------------------------------------------- claims on the grammar
\* the rules have run over the buffer
Parsed == parserpc \in {"parsed", "error"}

\* what a rule returns at a position of the buffer
End(rule, position) == Call(parserRules, rule, position)

\* the buffer holds the text at the position
TextAt(position, text) ==
    /\ position + Len(text) <= Len(parserBuffer)
    /\ \A i \in 1..Len(text) : parserBuffer[position + i] = text[i]

MergeCall == <<"m", "e", "r", "g", "e", "(">>

\* C14: where the buffer holds 'merge' immediately followed by '(', neither
\* RefMerge nor SimpleMerge (nor Merge, their choice) matches; rule Reference
\* matches the name merge there, what Level0 matches there is what Chained
\* matches, and where a call follows the name, Chained takes it in
C14_MergeCallIsNoDirective ==
    Parsed =>
        \A p \in 0..Len(parserBuffer) :
            TextAt(p, MergeCall) =>
                /\ End("RefMerge", p) = -1
                /\ End("SimpleMerge", p) = -1
                /\ End("Merge", p) = -1
                /\ End("Key", p) = p + 5
                /\ End("Reference", p) = p + 5
                /\ End("Level0", p) = End("Chained", p)
                /\ End("Chained", p) >= p + 5
                /\ End("ChainedCall", p + 5) >= 0 =>
                       End("Chained", p) >= End("ChainedCall", p + 5)

\* the text merge(a) is parsed to its end as a reference and a call
C14_Witness ==
    /\ parserpc = "parsed"
    /\ parserBuffer = <<"m", "e", "r", "g", "e", "(", "a", ")">>
    /\ End("Reference", 0) = 5
    /\ End("ChainedCall", 5) = 8
    /\ End("Level0", 0) = 8
    /\ End("Merge", 0) = -1

\* the level of the grammar that takes an operator, 1 the tightest
LevelOf(op) == CHOOSE n \in DOMAIN OperatorLevels : op \in OperatorLevels[n]

\* the rule of a level and the rule of its operands, the next tighter level
LevelRule == <<"Level1", "Level2", "Level3", "Level4", "Level5", "Level6", "Level7">>

OperandRule == <<"Level0", "Level1", "Level2", "Level3", "Level4", "Level5", "Level6">>

\* the chains of three operands and two operators
OperatorPairs == SeqsOf(Operators, 2, 2)

\* where the second operand of a chain starts
SecondOperand(ops) == 1 + Len(ops[1])

\* the tighter operator of a chain a op1 b op2 c, read by the levels alone,
\* has its two operands for itself: a op1 b is one operand of a looser op2,
\* and b op2 c is one operand of a looser op1
GroupedByLevel(ops) ==
    LET n1 == LevelOf(ops[1])
        n2 == LevelOf(ops[2])
        b == SecondOperand(ops)
    IN  /\ n1 < n2 => End(OperandRule[n2], 0) = b + 1
        /\ n2 < n1 => End(OperandRule[n1], b) = Len(parserBuffer)

\* two operators of one level: the level takes both, from left to right
GroupedInLevel(ops) ==
    LET n == LevelOf(ops[1])
    IN  LevelOf(ops[2]) = n =>
            /\ End(LevelRule[n], 0) = Len(parserBuffer)
            /\ End(OperandRule[n], 0) = 1

\* a conditional followed by a disjunction
ConditionalFirst(ops) == LevelOf(ops[1]) = 6 /\ LevelOf(ops[2]) = 7

Quote == "\""

Backslash == "\\"

\* the content of a string literal in plain mode as the claim reads it: plain
\* runes, escaped quotes and escaped backslashes
RECURSIVE IsContent(_)
IsContent(runes) ==
    \/ runes = <<>>
    \/ /\ Len(runes) >= 2
       /\ runes[1] = Backslash
       /\ runes[2] \in {Backslash, Quote}
       /\ IsContent(Tail(Tail(runes)))
    \/ /\ runes[1] \notin {Backslash, Quote}
       /\ IsContent(Tail(runes))

\* a literal: a quote, content, a quote
IsLiteral(buf) ==
    /\ Len(buf) >= 2
    /\ buf[1] = Quote
    /\ buf[Len(buf)] = Quote
    /\ IsContent(SubSeq(buf, 2, Len(buf) - 1))

\* C16: rule String honours the escapes of the quote and of the backslash:
\* every literal of plain runes, escaped quotes and escaped backslashes is
\* matched by String up to its closing quote and parsed, also a literal whose
\* content ends with an escaped backslash
C16_EscapedBackslashEndsLiteral ==
    (Parsed /\ IsLiteral(parserBuffer)) =>
        /\ End("String", 0) = Len(parserBuffer)
        /\ parserpc = "parsed"

\* ------------------------------------------ claims on the list of arguments
\* the evaluation of every element of the list returns ok
EveryElementOk == \A i \in DOMAIN listE : EvaluateExpr(listE[i], listBinding, FALSE).ok

\* the evaluation of some element returns an expression
SomeElementDeferred ==
    \E i \in DOMAIN listE : IsExpression(EvaluateExpr(listE[i], listBinding, FALSE).val)

\* the elements marked for list expansion whose evaluation returns a resolved
\* value return a list of nodes
ResolvedMarkedAreLists ==
    \A i \in DOMAIN listE :
        LET out == EvaluateExpr(listE[i], listBinding, FALSE)
        IN  (IsListExpansion(listE[i]) /\ out.ok /\ ~IsExpression(out.val)) =>
                IsNodeList(out.val)

\* C20: ResolveExpressionListOrPushEvaluation returns ok whenever every
\* element of the list evaluates with ok, resolved or deferred, also when a
\* deferred element is marked for list expansion (the resolved elements that
\* are marked being lists); where an element is deferred, the call reports no
\* error and the flag behind resolved is left false
C20_DeferredElementsAreNoFailure ==
    (listpc = "done" /\ EveryElementOk /\ ResolvedMarkedAreLists) =>
        /\ listReturn.ok
        /\ ~listReturn.info.LocalError
        /\ SomeElementDeferred => ~listReturn.resolved

\* ------------------------------------------------------ claims on the keys
\* C18: String and ParseKey are a round trip: ParseKey of the string of a key
\* returns the key and no error; and ParseKey returns an error for every
\* string that stands for less or more than KeyLen bytes and for every text
\* that is no base64 text
C18_StringParseKeyRoundTrip ==
    /\ keypc = "roundtrip" =>
           /\ ~keyReturn.err
           /\ keyReturn.key = keyK
    /\ keypc = "parsed" =>
           /\ keyS \in OtherTexts => keyReturn.err
           /\ keyS \in Malformed => keyReturn.err
           /\ keyReturn.err => keyReturn.key = ZeroKey

\* the string of a key that is not the zero key was parsed back to the key
C18_Witness ==
    /\ keypc = "roundtrip"
    /\ keyK # ZeroKey
    /\ Len(keyS) = 44
    /\ keyReturn = [key |-> keyK, err |-> FALSE]

\* C19: GenerateKey and GeneratePrivateKey take the bytes of the key from a
\* cryptographically safe source: the key is no function of the state the
\* program is in when it makes the call, the source may give more than one
\* slice there
C19_KeyFromSafeSource ==
    [][(CallGenerateKey \/ CallGeneratePrivateKey) =>
          Cardinality(ReadOutcomes(rngSeed, KeyLen)) > 1]_vars

\* ----------------------------------------------- claims on dynamic indices
\* the entry of a map under a key, the element of a list at a position
HasEntry(node, key) == node.kind = "map" /\ \E k \in DOMAIN node.keys : node.keys[k] = key

Entry(node, key) == node.elems[CHOOSE k \in DOMAIN node.keys : node.keys[k] = key]

HasElement(node, i) == node.kind = "list" /\ i >= 0 /\ i < Len(node.elems)

Element(node, i) == node.elems[i + 1]

\* C17: a dynamic index on a resolved reference yields the addressed entry:
\* a string index the entry of the map under that key, an integer index the
\* element of the list at that position, a list of indices what the indices
\* yield one after the other: [i] yields what i yields, and [i, j] yields
\* element j of element i
C17_DynamicIndexYieldsEntry ==
    dynpc = "done" =>
        /\ (dynIndex.expr = "string" /\ HasEntry(dynRoot, dynIndex.s)) =>
               dynReturn = Yields(Entry(dynRoot, dynIndex.s))
        /\ (dynIndex.expr = "integer" /\ HasElement(dynRoot, dynIndex.n)) =>
               dynReturn = Yields(Element(dynRoot, dynIndex.n))
        /\ (dynIndex.expr = "list" /\ Len(dynIndex.contents) = 1) =>
               dynReturn = DynamicEvaluate(dynRoot, dynIndex.contents[1])
        /\ (dynIndex.expr = "list" /\ Len(dynIndex.contents) = 2) =>
               LET first == DynamicEvaluate(dynRoot, dynIndex.contents[1])
               IN  /\ first.ok => dynReturn = DynamicEvaluate(first.value, dynIndex.contents[2])
                   /\ ~first.ok => ~dynReturn.ok
        /\ \A i, j \in 0..MaxIndex :
               (/\ dynIndex = ListExpr(<<IntegerExpr(i), IntegerExpr(j)>>)
                /\ HasElement(dynRoot, i)
                /\ HasElement(Element(dynRoot, i), j)) =>
                   dynReturn = Yields(Element(Element(dynRoot, i), j))

\* the indices [0, 1] on a list whose first element is the list of 1 and 42
\* have yielded 42
C17_Witness ==
    /\ dynpc = "done"
    /\ dynIndex = ListExpr(<<IntegerExpr(0), IntegerExpr(1)>>)
    /\ dynRoot = NodeList(<<NodeList(<<IntNode(1), IntNode(42)>>)>>)
    /\ dynReturn = Yields(IntNode(42))

\* ------------------------------------------- claims on the receiver of With*
\* the tag set of a context: what the map behind its tags field holds
TagSet(s, ms) == IF s.tags = 0 THEN {} ELSE ms[s.tags]

\* the calls that are said to create a new context
CreatingCalls ==
    {"WithInterpolation", "WithEncryptionKey", "WithMode", "WithFileSystem",
     "WithFunctions", "WithValues", "SetTag"}

\* C22: the With* methods and SetTag leave the receiver untouched: after the
\* call the key, mode, filesystem, values, functions, interpolation flag and
\* binding of the receiver and its tag set are what they were before the call
C22_ReceiverUntouched ==
    [][(\E op \in CreatingCalls : IsCall(op)) =>
          LET c == lastCall'.ctx
          IN  /\ contexts'[c] = contexts[c]
              /\ TagSet(contexts'[c], tagmaps') = TagSet(contexts[c], tagmaps)]_vars

\* the list in which the deferred elements have been pushed: a deferred
\* element is replaced by the expression its evaluation returned, under the
\* wrapper of the element, every other element stays
PushedList ==
    [i \in DOMAIN listE |->
        LET out == EvaluateExpr(listE[i], listBinding, FALSE)
        IN  IF out.ok /\ IsExpression(out.val) THEN KeepArgWrapper(out.val, listE[i])
            ELSE listE[i]]

\* C23: ResolveExpressionListOrPushEvaluation updates the list of the caller
\* atomically: when it returns ok=false the list behind list is unchanged, and
\* when it returns ok=true the list is the one with the deferred elements
\* pushed
C23_ListUpdatedAtomically ==
    listpc = "done" =>
        /\ ~listReturn.ok => listReturn.list = listE
        /\ listReturn.ok => listReturn.list = PushedList

\* the call has failed at the second element after it had pushed the first,
\* deferred one into its copy
C23_Witness ==
    /\ listpc = "done"
    /\ ~listReturn.ok
    /\ Len(listE) = 2
    /\ IsExpression(EvaluateExpr(listE[1], listBinding, FALSE).val)
    /\ ~EvaluateExpr(listE[2], listBinding, FALSE).ok
    /\ PushedList # listE
    /\ listReturn.list = listE

\* ------------------------------------------- claims on the integer operand
\* what the evaluation of the operand returns
OperandOutcome == EvaluateExpr(argE, argBinding, argLocally)

\* C21: ResolveIntegerExpressionOrPushEvaluation yields an integer only for an
\* integer operand: for an operand that evaluates with ok to a resolved value
\* that is no int64, the nil value included, it returns ok=false with the
\* issue 'integer operand required'; it returns (0, info, true) only for a
\* deferred operand or an operand whose value is the integer 0
C21_IntegerOnlyForIntegerOperand ==
    respc = "done" =>
        /\ (/\ OperandOutcome.ok
            /\ ~IsExpression(OperandOutcome.val)
            /\ OperandOutcome.val.type # "int") =>
               /\ ~resReturn.ok
               /\ resReturn.info.Issue = NewIssue("integer operand required")
        /\ (resReturn.ok /\ resReturn.value = Value("int", "0")) =>
               /\ OperandOutcome.ok
               /\ IsExpression(OperandOutcome.val) \/ OperandOutcome.val = Value("int", "0")

\* --------------------------------------------------------- claims on Join
\* the flags of an info that a Join is said to keep
KeptFlags(i) ==
    {f \in {"LocalError", "Failed", "Undefined", "Merged", "Preferred"} : i[f]}

\* C24: Join never clears an error or a flag: the info joined from a chain of
\* operands has LocalError, Failed, Undefined, Merged and Preferred set
\* whenever one of the operands has it, its NodeFlags are the union of the
\* NodeFlags of the operands, and its Issue is not empty whenever the Issue of
\* one of the operands is not empty
C24_JoinNeverClears ==
    /\ KeptFlags(joinInfo) = UNION {KeptFlags(joinOperands[k]) : k \in DOMAIN joinOperands}
    /\ joinInfo.NodeFlags = UNION {joinOperands[k].NodeFlags : k \in DOMAIN joinOperands}
    /\ (joinInfo.Issue.Issue # "") <=>
           (\E k \in DOMAIN joinOperands : joinOperands[k].Issue.Issue # "")

\* an info that failed was joined with two infos that did not: the result
\* still has Failed set, and the issue of the second operand
C24_Witness ==
    /\ Len(joinOperands) = 3
    /\ joinOperands[1].Failed
    /\ ~joinOperands[2].Failed /\ joinOperands[2].Issue = NewIssue("b")
    /\ ~joinOperands[3].Failed /\ joinOperands[3].NodeFlags = {"temporary"}
    /\ joinInfo.Failed
    /\ joinInfo.Issue = NewIssue("b")
    /\ joinInfo.NodeFlags = {"temporary"}

\* --------------------------------------------------- claims on CheckTagName
\* the positions at which a component of the name starts and ends
ComponentStarts(name) == {k \in DOMAIN name : k = 1 \/ name[k - 1] = ":"}

ComponentEnds(name) == {k \in DOMAIN name : k = Len(name) \/ name[k + 1] = ":"}

\* a well-formed tag name: not empty, components separated by single ':',
\* every component not empty, starting with a letter and made of letters and
\* digits
WellFormedTagName(name) ==
    /\ Len(name) > 0
    /\ \A k \in DOMAIN name : name[k] = ":" \/ name[k] \in Lower \cup Upper \cup Digit
    /\ \A k \in ComponentStarts(name) : name[k] \in Lower \cup Upper
    /\ \A k \in ComponentEnds(name) : name[k] # ":"

\* C25: CheckTagName returns nil exactly for the well-formed tag names, and an
\* error for every other name: the empty name, a leading, trailing or doubled
\* ':', a component starting with a digit, any other character
C25_NilExactlyForWellFormed ==
    checkpc = "done" => (checkErr = NilError <=> WellFormedTagName(checkName))

\* ------------------------------------------------------ claims on addValue
\* the node at a path of keys in a map
RECURSIVE NodeAt(_, _)
NodeAt(m, path) ==
    IF Head(path) \notin DOMAIN m THEN [found |-> FALSE, node |-> ScalarNode(0)]
    ELSE IF Len(path) = 1 THEN [found |-> TRUE, node |-> m[Head(path)]]
    ELSE IF m[Head(path)].kind # "map" THEN [found |-> FALSE, node |-> ScalarNode(0)]
    ELSE NodeAt(m[Head(path)].map, Tail(path))

\* the paths of the entries of a map and of the maps nested in it
RECURSIVE PathsOf(_)
PathsOf(m) ==
    UNION {{<<k>>} \cup (IF m[k].kind = "map" THEN {<<k>> \o q : q \in PathsOf(m[k].map)}
                         ELSE {}) : k \in DOMAIN m}

IsPrefix(p, q) == Len(p) <= Len(q) /\ SubSeq(q, 1, Len(p)) = p

\* the path the name stands for, and whether a component before the last one
\* is empty
DottedPath == Unmask(Split(valName), 1).comps

EmptyComponent == Unmask(Split(valName), 1).err

\* a field on the way to the last component exists and is no map
FieldIsNoMap ==
    \E n \in 1..(Len(DottedPath) - 1) :
        LET at == NodeAt(valM, SubSeq(DottedPath, 1, n))
        IN  at.found /\ at.node.kind # "map"

\* C26: addValue is all-or-nothing: when it returns an error, which it does
\* for an empty path component and for a field on the way that exists and is
\* no map, the map and every map nested in it are unchanged; when it returns
\* nil the value is stored at the dotted path, the maps missing on the way are
\* created, and the entries off that path are untouched
C26_AddValueAllOrNothing ==
    valpc = "done" =>
        /\ valReturn.err <=> (EmptyComponent \/ FieldIsNoMap)
        /\ valReturn.err => valReturn.m = valM
        /\ ~valReturn.err =>
               /\ NodeAt(valReturn.m, DottedPath) = [found |-> TRUE, node |-> valValue]
               /\ \A q \in PathsOf(valM) :
                      (~IsPrefix(q, DottedPath) /\ ~IsPrefix(DottedPath, q)) =>
                          NodeAt(valReturn.m, q) = NodeAt(valM, q)
               /\ \A q \in PathsOf(valReturn.m) :
                      q \in PathsOf(valM) \/ IsPrefix(q, DottedPath)

\* b.a was stored in a map that held a.a and a.b only: the map b was
\* created, a.a and a.b are what they were
C26_Witness ==
    /\ valpc = "done"
    /\ ~valReturn.err
    /\ valName = <<"b", ".", "a">>
    /\ valM = PutEntry(NoMap, <<"a">>, MapNode(Entries(MapNode(NoMap), ScalarNode(2))))
    /\ valReturn.m[<<"b">>] = MapNode(PutEntry(NoMap, <<"a">>, valValue))
    /\ valReturn.m[<<"a">>] = valM[<<"a">>]

====
